---- MODULE Spec2Model ----
(***************************************************************************)
(* Verification model of the ESP8266 REST firmware: the nonce/HMAC         *)
(* authentication engine (Auth.cpp), the transport-side check (ApiContext, *)
(* ApiHandle) and the cron scheduler (CronScheduler.cpp).                  *)
(***************************************************************************)
EXTENDS Integers, Sequences, FiniteSets, TLC

(***************************************************************************)
(* Program constants                                                       *)
(***************************************************************************)
MAX_AUTH_SLOTS == 8
NONCE_TIMEOUT_MS == 50000
DATA_BUF_SIZE == 1024
SIG_HEX_LEN == 64
MAX_GPIO_PINS == 18
A0 == 17
A0_INDEX == A0
MAX_CRON_JOBS == 32
CRON_EXEC_WINDOW_SEC == 2
CRON_EXPR_SIZE == 32
CRON_FIELD_SIZE == 16
TZ_OFFSET_SEC == 3600

(***************************************************************************)
(* Bounds of the model                                                     *)
(***************************************************************************)
\* uint32_t arithmetic is modelled modulo UINT_MOD (the width is reduced so
\* that wrap-around is reachable)
UINT_MOD == 131072
\* number of clock advances explored in the authentication specifications
MaxTicks == 1

(***************************************************************************)
(* Input domains                                                           *)
(***************************************************************************)
NoIp == 0                         \* IPAddress(): 0.0.0.0
Clients == {1, 2}
PoolClients == 1 .. (MAX_AUTH_SLOTS + 1)
PoolNonces == {7}
NonceVals == {7, 70000}
Keys == {"K0", "K1", "K2"}        \* "K0": the all-zero static buffer
ZeroKey == "K0"
Uris == {"/api/state", "/api/cron/set"}
X8 == "xxxxxxxx"
X64 == X8 \o X8 \o X8 \o X8 \o X8 \o X8 \o X8 \o X8
X512 == X64 \o X64 \o X64 \o X64 \o X64 \o X64 \o X64 \o X64
LongBody == X512 \o X512
Payloads == {"{\"a\":1}", LongBody}
\* with nonce 7 and uri "/api/state" the signed text is exactly DATA_BUF_SIZE characters
EdgeBody == SubSeq(LongBody, 1, DATA_BUF_SIZE - 11)
Deltas == {NONCE_TIMEOUT_MS - 1, NONCE_TIMEOUT_MS + 1}
StartMillis == {0, UINT_MOD - NONCE_TIMEOUT_MS}
\* wall clock at the start: 01:10:00 local time on 1970-01-01
EpochStart == 10 * 60
\* 18:29:00 local time on 1970-01-01, and the same time one day later
ScenarioStart == 17 * 3600 + 29 * 60
StartEpochs == {EpochStart, ScenarioStart, ScenarioStart + 86400}

VARIABLES
  authSlots,     \* static AuthSlot authSlots[MAX_AUTH_SLOTS]
  authKey,       \* static uint8_t authKey[AUTH_KEY_LEN]
  authEnabled,   \* static bool authEnabled
  millis,        \* monotonic millisecond counter (uint32)
  eeprom,        \* EEPROM cells: auth flag, auth key, serial-debug flag
  ticks,         \* number of clock advances taken (exploration budget)
  spent,         \* (identity, nonce) pairs presented to authVerify and not re-issued
  ret,           \* the last call and what it returned
  gpioState,     \* static GpioConfig gpioState[MAX_GPIO_PINS]
  gpioFile,      \* /gpio_state.bin
  cronJobsState, \* static CronJob cronJobsState[MAX_CRON_JOBS]
  cronFile,      \* /cron_state.bin
  debugActive,   \* static bool debugActive
  epoch,         \* wall clock: timeClient.getEpochTime()
  lastPrint,     \* static unsigned long lastPrint of cronSchedulerLoop
  issuedKey,     \* key returned by the setup request that enabled authentication
  firedMin       \* per job slot: the minute in which its action last ran, -1 if never

authVars == <<authSlots, authKey, authEnabled>>
devVars == <<gpioState, gpioFile, cronJobsState, cronFile, debugActive, epoch,
             lastPrint, issuedKey, firedMin>>
vars == <<authSlots, authKey, authEnabled, millis, eeprom, ticks, spent, ret,
          gpioState, gpioFile, cronJobsState, cronFile, debugActive, epoch,
          lastPrint, issuedKey, firedMin>>

SlotIdx == 0 .. (MAX_AUTH_SLOTS - 1)

(***************************************************************************)
(* Crypto.cpp                                                              *)
(***************************************************************************)
\* HMAC-SHA256 as an ideal (collision-free) keyed function of its input
hmacSha256(key, data) == <<key, data>>

\* bytesToHex: lower-case hex text of a MAC
bytesToHex(mac) == [len |-> SIG_HEX_LEN, hex |-> TRUE, upper |-> FALSE, mac |-> mac]

strlenSig(sig) == sig.len

\* hexToBytes: decodes outLen*2 characters, either case; fails on a non-hex character
hexToBytes(sig) ==
  IF sig.hex /\ sig.len >= SIG_HEX_LEN
    THEN [ok |-> TRUE, bytes |-> sig.mac]
    ELSE [ok |-> FALSE, bytes |-> <<>>]

secureCompare(a, b) == a = b

(***************************************************************************)
(* Auth.cpp                                                                *)
(***************************************************************************)
EmptySlot == [ip |-> NoIp, nonce |-> 0, timestamp |-> 0, active |-> FALSE]

clearSlot_keep(slots, i) == slots

clearSlot(slots, i) == [slots EXCEPT ![i] = EmptySlot]

RECURSIVE ScanByIp(_, _, _)
ScanByIp(slots, ip, i) ==
  IF i >= MAX_AUTH_SLOTS THEN -1
  ELSE IF slots[i].active /\ slots[i].ip = ip THEN i
  ELSE ScanByIp(slots, ip, i + 1)

findSlotByIp_any(slots, ip) ==
  IF \E i \in SlotIdx : slots[i].active
    THEN CHOOSE i \in SlotIdx : slots[i].active /\ \A j \in SlotIdx : slots[j].active => i <= j
    ELSE -1

findSlotByIp(slots, ip) == ScanByIp(slots, ip, 0)

RECURSIVE ScanFree(_, _)
ScanFree(slots, i) ==
  IF i >= MAX_AUTH_SLOTS THEN -1
  ELSE IF ~slots[i].active THEN i
  ELSE ScanFree(slots, i + 1)

findFreeSlot(slots) == ScanFree(slots, 0)

RECURSIVE OldestFrom(_, _, _)
OldestFrom(slots, i, idx) ==
  IF i >= MAX_AUTH_SLOTS THEN idx
  ELSE IF slots[i].timestamp < slots[idx].timestamp
         THEN OldestFrom(slots, i + 1, i)
         ELSE OldestFrom(slots, i + 1, idx)

findOldestSlot_first(slots) == 0

findOldestSlot(slots) == OldestFrom(slots, 1, 0)

challengeSlot_nolookup(slots, ip) ==
  IF findFreeSlot(slots) >= 0 THEN findFreeSlot(slots)
  ELSE findOldestSlot(slots)

\* slot selection of authGenerateChallenge
challengeSlot(slots, ip) ==
  IF findSlotByIp(slots, ip) >= 0 THEN findSlotByIp(slots, ip)
  ELSE IF findFreeSlot(slots) >= 0 THEN findFreeSlot(slots)
  ELSE findOldestSlot(slots)

authGenerateChallenge_keep(slots, now, ip, rnd) ==
  [slots EXCEPT ![challengeSlot(slots, ip)] =
     [ip |-> ip, nonce |-> IF findSlotByIp(slots, ip) >= 0 THEN @.nonce ELSE rnd,
      timestamp |-> now, active |-> TRUE]]

authGenerateChallenge(slots, now, ip, rnd) ==
  [slots EXCEPT ![challengeSlot(slots, ip)] =
     [ip |-> ip, nonce |-> rnd, timestamp |-> now, active |-> TRUE]]

\* millis() - slot.timestamp in uint32 arithmetic
elapsedMs(now, ts) == ((now - ts) + UINT_MOD) % UINT_MOD

nonceExpired_late(now, ts) == elapsedMs(now, ts) > NONCE_TIMEOUT_MS + 1

nonceExpired(now, ts) == elapsedMs(now, ts) > NONCE_TIMEOUT_MS

authData_nobody(nonce, uri, payload) == ToString(nonce) \o uri

\* snprintf(nonceBuf, "%lu", nonce); strcpy; strcat; strcat
authData(nonce, uri, payload) == ToString(nonce) \o uri \o payload

authVerify(slots, key, now, ip, nonce, uri, payload, signature) ==
  LET idx == findSlotByIp(slots, ip) IN
  IF idx < 0 THEN [ok |-> FALSE, slots |-> slots]
  ELSE IF ~slots[idx].active \/ slots[idx].nonce # nonce
    THEN [ok |-> FALSE, slots |-> slots]
  ELSE IF nonceExpired(now, slots[idx].timestamp)
    THEN [ok |-> FALSE, slots |-> clearSlot(slots, idx)]
  ELSE IF strlenSig(signature) # SIG_HEX_LEN
    THEN [ok |-> FALSE, slots |-> clearSlot(slots, idx)]
  ELSE IF Len(ToString(nonce)) + Len(uri) + Len(payload) > DATA_BUF_SIZE
    THEN [ok |-> FALSE, slots |-> clearSlot(slots, idx)]
  ELSE IF ~hexToBytes(signature).ok
    THEN [ok |-> FALSE, slots |-> clearSlot(slots, idx)]
  ELSE [ok |-> secureCompare(hmacSha256(key, authData(nonce, uri, payload)),
                             hexToBytes(signature).bytes),
        slots |-> clearSlot(slots, idx)]

\* the call reaches strcpy/strcat with a text of exactly DATA_BUF_SIZE
\* characters: the terminator is written one byte past char data[1024]
authVerifyOverruns(slots, now, ip, nonce, uri, payload, signature) ==
  LET idx == findSlotByIp(slots, ip) IN
  /\ idx >= 0
  /\ slots[idx].active /\ slots[idx].nonce = nonce
  /\ ~nonceExpired(now, slots[idx].timestamp)
  /\ strlenSig(signature) = SIG_HEX_LEN
  /\ ~(Len(ToString(nonce)) + Len(uri) + Len(payload) > DATA_BUF_SIZE)
  /\ Len(ToString(nonce)) + Len(uri) + Len(payload) + 1 > DATA_BUF_SIZE

\* loadAuthFlag: the flag byte holds the marker 0xA5
loadAuthFlag(ee) == ee.authFlag

\* loadAuthKey into buffer key: fails, leaving the buffer alone, when the flag
\* byte does not hold the marker
loadAuthKey(ee, key) ==
  IF ~ee.authFlag THEN [ok |-> FALSE, key |-> key]
  ELSE [ok |-> TRUE, key |-> ee.authKey]

authInitEnabled_always(ee) == TRUE

\* authInit: clears the pool, loads flag and key from EEPROM
authInitEnabled(ee) == loadAuthFlag(ee) /\ loadAuthKey(ee, ZeroKey).ok

authInitKey(ee, key) == IF loadAuthFlag(ee) THEN loadAuthKey(ee, key).key ELSE key

(***************************************************************************)
(* C strings and Arduino String helpers                                    *)
(***************************************************************************)
LONG_MAX == (UINT_MOD \div 2) - 1

isDigit(c) == c \in {"0", "1", "2", "3", "4", "5", "6", "7", "8", "9"}

DigitVal(c) ==
  CASE c = "0" -> 0 [] c = "1" -> 1 [] c = "2" -> 2 [] c = "3" -> 3
    [] c = "4" -> 4 [] c = "5" -> 5 [] c = "6" -> 6 [] c = "7" -> 7
    [] c = "8" -> 8 [] OTHER -> 9

isSpace(c) == c \in {" ", "\t", "\n", "\r"}

LowerLetters ==
  {"a", "b", "c", "d", "e", "f", "g", "h", "i", "j", "k", "l", "m",
   "n", "o", "p", "q", "r", "s", "t", "u", "v", "w", "x", "y", "z"}

UpperLetters ==
  {"A", "B", "C", "D", "E", "F", "G", "H", "I", "J", "K", "L", "M",
   "N", "O", "P", "Q", "R", "S", "T", "U", "V", "W", "X", "Y", "Z"}

\* toupper / tolower as lookup tables
UpperOf ==
  [c \in LowerLetters |->
     CASE c = "a" -> "A" [] c = "b" -> "B" [] c = "c" -> "C" [] c = "d" -> "D"
       [] c = "e" -> "E" [] c = "f" -> "F" [] c = "g" -> "G" [] c = "h" -> "H"
       [] c = "i" -> "I" [] c = "j" -> "J" [] c = "k" -> "K" [] c = "l" -> "L"
       [] c = "m" -> "M" [] c = "n" -> "N" [] c = "o" -> "O" [] c = "p" -> "P"
       [] c = "q" -> "Q" [] c = "r" -> "R" [] c = "s" -> "S" [] c = "t" -> "T"
       [] c = "u" -> "U" [] c = "v" -> "V" [] c = "w" -> "W" [] c = "x" -> "X"
       [] c = "y" -> "Y" [] c = "z" -> "Z"]

LowerOf ==
  [c \in UpperLetters |->
     CASE c = "A" -> "a" [] c = "B" -> "b" [] c = "C" -> "c" [] c = "D" -> "d"
       [] c = "E" -> "e" [] c = "F" -> "f" [] c = "G" -> "g" [] c = "H" -> "h"
       [] c = "I" -> "i" [] c = "J" -> "j" [] c = "K" -> "k" [] c = "L" -> "l"
       [] c = "M" -> "m" [] c = "N" -> "n" [] c = "O" -> "o" [] c = "P" -> "p"
       [] c = "Q" -> "q" [] c = "R" -> "r" [] c = "S" -> "s" [] c = "T" -> "t"
       [] c = "U" -> "u" [] c = "V" -> "v" [] c = "W" -> "w" [] c = "X" -> "x"
       [] c = "Y" -> "y" [] c = "Z" -> "z"]

toUpperChar(c) == IF c \in LowerLetters THEN UpperOf[c] ELSE c

toLowerChar(c) == IF c \in UpperLetters THEN LowerOf[c] ELSE c

RECURSIVE toUpperCase(_)
toUpperCase(s) == IF Len(s) = 0 THEN "" ELSE toUpperChar(Head(s)) \o toUpperCase(Tail(s))

RECURSIVE toLowerCase(_)
toLowerCase(s) == IF Len(s) = 0 THEN "" ELSE toLowerChar(Head(s)) \o toLowerCase(Tail(s))

RECURSIVE TrimLeft(_)
TrimLeft(s) == IF Len(s) > 0 /\ isSpace(Head(s)) THEN TrimLeft(Tail(s)) ELSE s

RECURSIVE TrimRight(_)
TrimRight(s) ==
  IF Len(s) > 0 /\ isSpace(SubSeq(s, Len(s), Len(s)))
    THEN TrimRight(SubSeq(s, 1, Len(s) - 1))
    ELSE s

\* String::trim
trim(s) == TrimRight(TrimLeft(s))

RECURSIVE AllDigits(_)
AllDigits(s) == Len(s) = 0 \/ (isDigit(Head(s)) /\ AllDigits(Tail(s)))

\* the digits at the start of s, accumulated in base 10, saturating at LONG_MAX
RECURSIVE DigitsValue(_, _)
DigitsValue(s, acc) ==
  IF Len(s) = 0 \/ ~isDigit(Head(s)) THEN acc
  ELSE IF acc * 10 + DigitVal(Head(s)) > LONG_MAX THEN DigitsValue(Tail(s), LONG_MAX + 1)
  ELSE DigitsValue(Tail(s), acc * 10 + DigitVal(Head(s)))

\* atol / atoi / String::toInt: leading blanks, optional sign, digits; 0 when
\* no digit is found; out-of-range values saturate
atol(s) ==
  LET t == TrimLeft(s) IN
  IF Len(t) > 0 /\ Head(t) = "-"
    THEN 0 - DigitsValue(Tail(t), 0)
  ELSE IF Len(t) > 0 /\ Head(t) = "+"
    THEN IF DigitsValue(Tail(t), 0) > LONG_MAX THEN LONG_MAX ELSE DigitsValue(Tail(t), 0)
  ELSE IF DigitsValue(t, 0) > LONG_MAX THEN LONG_MAX ELSE DigitsValue(t, 0)

\* conversion of a long to uint32_t and to uint8_t
toUint32(n) == ((n % UINT_MOD) + UINT_MOD) % UINT_MOD

toUint8(n) == ((n % 256) + 256) % 256

\* index of the first occurrence of character c in s, 0 if none
RECURSIVE strchr(_, _, _)
strchr(s, c, i) ==
  IF i > Len(s) THEN 0
  ELSE IF SubSeq(s, i, i) = c THEN i
  ELSE strchr(s, c, i + 1)

\* the successive strtok tokens of s for a one-character delimiter
RECURSIVE strtokAll(_, _)
strtokAll(s, d) ==
  IF Len(s) = 0 THEN << >>
  ELSE IF Head(s) = d THEN strtokAll(Tail(s), d)
  ELSE LET e == strchr(s, d, 1) IN
       IF e = 0 THEN << s >>
       ELSE << SubSeq(s, 1, e - 1) >> \o strtokAll(SubSeq(s, e + 1, Len(s)), d)

\* strncpy(buf, src, size); buf[size - 1] = 0  and  strlcpy(buf, src, size)
strTruncate(s, size) == IF Len(s) > size - 1 THEN SubSeq(s, 1, size - 1) ELSE s

(***************************************************************************)
(* GpioUtils.cpp                                                           *)
(***************************************************************************)
gpioIsValid(pin) == ~(pin > 16) /\ ~(pin >= 6 /\ pin <= 11)

gpioIsSafeOutput(pin) == gpioIsValid(pin) /\ pin \in {4, 5, 12, 13, 14}

gpioSupportsPWM(pin) == gpioIsValid(pin) /\ pin # 16

gpioSupportsAnalog(pin) == pin = A0

gpioSupportsPullup(pin) == gpioIsValid(pin) /\ pin # 16

stringToPinMode(modeStr) ==
  LET m == toLowerCase(modeStr) IN
  IF m = "input" THEN "Input"
  ELSE IF m = "inputpullup" THEN "InputPullup"
  ELSE IF m = "output" THEN "Output"
  ELSE IF m = "pwm" THEN "Pwm"
  ELSE IF m = "analog" THEN "Analog"
  ELSE "Disabled"

\* apiToGpio: pin id text to GPIO number, -1 if invalid
apiToGpio(id) ==
  LET u == toUpperCase(trim(id))
      n == IF Len(u) >= 4 /\ SubSeq(u, 1, 4) = "GPIO" THEN SubSeq(u, 5, Len(u)) ELSE u
  IN
  IF u = "A0" THEN A0
  ELSE IF Len(n) = 0 THEN -1
  ELSE IF ~AllDigits(n) THEN -1
  ELSE IF ~gpioIsValid(toUint8(atol(n))) THEN -1
  ELSE atol(n)

(***************************************************************************)
(* BinaryStorage.cpp                                                       *)
(***************************************************************************)
\* a file holds the records written to it; a complete write replaces it by
\* the whole table
storageWrite(data) == [present |-> TRUE, data |-> data]

\* how a write ends: all bytes written, the file could not be opened, or
\* only the first n records were written (storage full, filesystem error)
WriteOk == [kind |-> "ok", n |-> 0]
WriteNoOpen == [kind |-> "noopen", n |-> 0]
WriteShort(n) == [kind |-> "short", n |-> n]

\* storageWrite(path, data, length) on file `file` with outcome wr
storageWriteAs(file, data, wr) ==
  IF wr.kind = "ok" THEN [ok |-> TRUE, file |-> storageWrite(data)]
  ELSE IF wr.kind = "noopen" THEN [ok |-> FALSE, file |-> file]
  ELSE [ok |-> FALSE,
        file |-> [present |-> TRUE, data |-> [i \in 0 .. (wr.n - 1) |-> data[i]]]]

\* storageRead(path, buffer, length): the records the file holds are copied
\* over the start of the buffer; true only if the whole length was read
storageRead(file, buffer) ==
  IF ~file.present THEN [ok |-> FALSE, buf |-> buffer]
  ELSE [ok |-> \A i \in DOMAIN buffer : i \in DOMAIN file.data,
        buf |-> [i \in DOMAIN buffer |->
                   IF i \in DOMAIN file.data THEN file.data[i] ELSE buffer[i]]]

(***************************************************************************)
(* DeviceController.cpp                                                    *)
(***************************************************************************)
PinIdx == 0 .. (MAX_GPIO_PINS - 1)

GpioConfig(pin, mode, state) == [pin |-> pin, mode |-> mode, state |-> state]

\* deviceInit: the stored table, or the defaults when no table can be read
deviceInit(file) ==
  IF file.present THEN file.data
  ELSE [i \in PinIdx |-> GpioConfig(i + 1, "Disabled", 0)]

\* deviceGet: index of the cached entry, -1 for the null pointer
deviceGet(pin) ==
  IF pin = A0 THEN A0_INDEX
  ELSE IF ~gpioIsValid(pin) THEN -1
  ELSE pin

\* deviceSet; hw is the level read back from the pin (digitalRead / analogRead)
deviceSet(gpio, file, config, hw) ==
  LET refuse == [ok |-> FALSE, gpio |-> gpio, file |-> file]
      store(c) == [ok |-> TRUE, gpio |-> [gpio EXCEPT ![c.pin] = c],
                   file |-> storageWrite([gpio EXCEPT ![c.pin] = c])]
  IN
  IF config.pin = A0_INDEX THEN
    IF ~gpioSupportsAnalog(A0) THEN refuse
    ELSE LET g == [gpio EXCEPT ![A0_INDEX].mode = "Analog", ![A0_INDEX].state = hw]
         IN [ok |-> TRUE, gpio |-> g, file |-> storageWrite(g)]
  ELSE IF ~gpioIsValid(config.pin) THEN refuse
  ELSE IF config.mode = "Output" THEN
    IF ~gpioIsSafeOutput(config.pin) THEN refuse ELSE store(config)
  ELSE IF config.mode = "Pwm" THEN
    IF ~gpioSupportsPWM(config.pin) THEN refuse ELSE store(config)
  ELSE IF config.mode = "Analog" THEN refuse
  ELSE IF config.mode = "Input" THEN store([config EXCEPT !.state = hw])
  ELSE IF config.mode = "InputPullup" THEN
    IF ~gpioSupportsPullup(config.pin) THEN refuse
    ELSE store([config EXCEPT !.state = hw])
  ELSE refuse

\* first loop of deviceReplaceAll: every valid pin and A0 become Disabled
deviceDisableAll(gpio) ==
  [i \in PinIdx |->
     IF gpioIsValid(i) THEN GpioConfig(i, "Disabled", 0)
     ELSE IF i = A0_INDEX THEN GpioConfig(A0, "Disabled", 0)
     ELSE gpio[i]]

\* second loop of deviceReplaceAll over configs[i .. count]
RECURSIVE deviceApplyAll(_, _, _, _)
deviceApplyAll(gpio, configs, i, hw) ==
  IF i > Len(configs) THEN [ok |-> TRUE, gpio |-> gpio]
  ELSE LET c == configs[i] IN
    IF c.pin = A0
      THEN deviceApplyAll([gpio EXCEPT ![A0_INDEX].mode = "Analog", ![A0_INDEX].state = hw],
                          configs, i + 1, hw)
    ELSE IF ~gpioIsValid(c.pin) THEN deviceApplyAll(gpio, configs, i + 1, hw)
    ELSE IF c.mode = "Pwm" /\ ~gpioSupportsPWM(c.pin) THEN [ok |-> FALSE, gpio |-> gpio]
    ELSE IF c.mode = "InputPullup" /\ ~gpioSupportsPullup(c.pin) THEN [ok |-> FALSE, gpio |-> gpio]
    ELSE IF c.mode = "Analog" THEN [ok |-> FALSE, gpio |-> gpio]
    ELSE deviceApplyAll([gpio EXCEPT ![c.pin] = c], configs, i + 1, hw)

\* deviceReplaceAll: the table is written to the file only when every entry applied
deviceReplaceAll(gpio, file, configs, hw) ==
  LET r == deviceApplyAll(deviceDisableAll(gpio), configs, 1, hw) IN
  [ok |-> r.ok, gpio |-> r.gpio, file |-> IF r.ok THEN storageWrite(r.gpio) ELSE file]

(***************************************************************************)
(* CronScheduler.cpp                                                       *)
(***************************************************************************)
JobIdx == 0 .. (MAX_CRON_JOBS - 1)

\* CronJob job{}: the zero-initialised record
ZeroJob == [active |-> FALSE, cron |-> "", action |-> "SetPinState", pin |-> 0,
            value |-> 0, lastExecEpoch |-> 0]

\* civil date of a day number counted from 1970-01-01
civilFromDays(days) ==
  LET z == days + 719468
      era == z \div 146097
      doe == z - era * 146097
      yoe == (doe - (doe \div 1460) + (doe \div 36524) - (doe \div 146096)) \div 365
      doy == doe - (365 * yoe + (yoe \div 4) - (yoe \div 100))
      mp == (5 * doy + 2) \div 153
  IN [mday |-> doy - ((153 * mp + 2) \div 5) + 1,
      mon |-> IF mp < 10 THEN mp + 3 ELSE mp - 9]

\* localtime() under TZ "CET-1CEST..." outside daylight-saving time
localtime(e) ==
  LET l == e + TZ_OFFSET_SEC
      d == civilFromDays(l \div 86400)
  IN [tm_sec |-> l % 60, tm_min |-> (l \div 60) % 60, tm_hour |-> (l \div 3600) % 24,
      tm_mday |-> d.mday, tm_mon |-> d.mon - 1, tm_wday |-> ((l \div 86400) + 4) % 7]

\* one comma-separated element of a field: a number or a range a-b
cronTokenMatch(tok, value) ==
  LET dash == strchr(tok, "-", 1) IN
  IF dash = 0 THEN atol(tok) = value
  ELSE value >= atol(tok) /\ value <= atol(SubSeq(tok, dash + 1, Len(tok)))

cronFieldMatch(expr, value) ==
  IF expr = "*" THEN TRUE
  ELSE LET toks == strtokAll(strTruncate(expr, CRON_FIELD_SIZE), ",") IN
       \E k \in 1 .. Len(toks) : cronTokenMatch(toks[k], value)

\* the fields[] array of cronMatch: at most the first five tokens
cronFields(cron) ==
  LET toks == strtokAll(strTruncate(cron, CRON_EXPR_SIZE), " ") IN
  IF Len(toks) > 5 THEN SubSeq(toks, 1, 5) ELSE toks

\* nowEpoch - job.lastExecEpoch in uint32 arithmetic
elapsedSec(now, last) == ((now - last) + UINT_MOD) % UINT_MOD

cronRecentlyRun_never(now, last) == FALSE

\* the double-execution test of cronMatch
cronRecentlyRun(now, last) == elapsedSec(now, last) <= CRON_EXEC_WINDOW_SEC

cronMatch(job, nowEpoch) ==
  LET t == localtime(nowEpoch)
      f == cronFields(job.cron)
  IN
  IF Len(f) # 5 THEN FALSE
  ELSE IF ~cronFieldMatch(f[1], t.tm_min) THEN FALSE
  ELSE IF ~cronFieldMatch(f[2], t.tm_hour) THEN FALSE
  ELSE IF ~cronFieldMatch(f[3], t.tm_mday) THEN FALSE
  ELSE IF ~cronFieldMatch(f[4], t.tm_mon + 1) THEN FALSE
  ELSE IF ~cronFieldMatch(f[5], t.tm_wday) THEN FALSE
  ELSE IF t.tm_sec > CRON_EXEC_WINDOW_SEC THEN FALSE
  ELSE IF cronRecentlyRun(nowEpoch, job.lastExecEpoch) THEN FALSE
  ELSE TRUE

\* cronSchedulerInit: storageRead into the zero-initialised static array
cronSchedulerInit(file) == storageRead(file, [i \in JobIdx |-> ZeroJob])

setCronJob_norange(jobs, file, index, job, wr) ==
  LET w == storageWriteAs(file, [jobs EXCEPT ![index] = job], wr)
  IN [ok |-> w.ok, jobs |-> [jobs EXCEPT ![index] = job], file |-> w.file]

\* setCronJob(index, job); index is a uint8_t, wr the outcome of the write
setCronJob(jobs, file, index, job, wr) ==
  IF index >= MAX_CRON_JOBS THEN [ok |-> FALSE, jobs |-> jobs, file |-> file]
  ELSE LET w == storageWriteAs(file, [jobs EXCEPT ![index] = job], wr)
       IN [ok |-> w.ok, jobs |-> [jobs EXCEPT ![index] = job], file |-> w.file]

\* cronGet(index); index is a uint8_t: -1 for the null pointer
cronGet(index) == IF index >= MAX_CRON_JOBS THEN -1 ELSE index

\* the for loop of cronSchedulerLoop from job i on; st carries the tables, the
\* jobs whose action was run (fired), the jobs stamped, the jobs whose
\* deviceSet call returned false (refused), and whether the pass ended in a
\* restart (ESP.restart() or a null GpioConfig dereference)
RECURSIVE cronPass(_, _, _, _)
cronPass(st, i, now, hw) ==
  IF i >= MAX_CRON_JOBS \/ st.restart THEN st
  ELSE LET j == st.jobs[i] IN
    IF ~(j.active /\ cronMatch(j, now)) THEN cronPass(st, i + 1, now, hw)
    ELSE IF deviceGet(j.pin) < 0 THEN [st EXCEPT !.restart = TRUE]
    ELSE LET cur == st.gpio[deviceGet(j.pin)]
             stamp(s) == [s EXCEPT !.jobs[i].lastExecEpoch = now,
                                   !.fired = @ \cup {i}, !.stamped = @ \cup {i}]
             apply(cfg) == LET r == deviceSet(st.gpio, st.gfile, cfg, hw)
                           IN [st EXCEPT !.gpio = r.gpio, !.gfile = r.file,
                                         !.refused = IF r.ok THEN @ ELSE @ \cup {i}]
         IN
         IF j.action = "SetPinState"
           THEN cronPass(stamp(apply([cur EXCEPT !.state = j.value])), i + 1, now, hw)
         ELSE IF j.action = "TogglePinState"
           THEN cronPass(stamp(apply([cur EXCEPT !.state = IF cur.state # 0 THEN 0 ELSE 1])),
                         i + 1, now, hw)
         ELSE IF j.action = "Reboot"
           THEN [st EXCEPT !.restart = TRUE, !.fired = @ \cup {i}]
         ELSE cronPass(stamp(st), i + 1, now, hw)

(***************************************************************************)
(* EepromConfig.cpp, Debug.cpp and the key management of Auth.cpp          *)
(***************************************************************************)
setAuthFlag(ee, flag) == [ee EXCEPT !.authFlag = flag]

\* setAuthKey also writes the flag byte
setAuthKey(ee, key) == [ee EXCEPT !.authFlag = TRUE, !.authKey = key]

setSerialDebugFlag(ee, flag) == [ee EXCEPT !.debugFlag = flag]

\* debugInit
debugInit(ee) == ee.debugFlag

\* generateAuthKey: randomBytes(out); setAuthKey(out); rnd is the random key.
\* Returns the EEPROM image and the key in RAM, which the function leaves alone.
generateAuthKey(ee, ramKey, rnd) == [eeprom |-> setAuthKey(ee, rnd), authKey |-> ramKey]

(***************************************************************************)
(* ArduinoJson values the handlers read                                    *)
(***************************************************************************)
JNull == [t |-> "null"]
JBool(b) == [t |-> "bool", b |-> b]
JInt(n) == [t |-> "int", n |-> n]
JStr(x) == [t |-> "str", x |-> x]
JObj(keys, vals) == [t |-> "obj", keys |-> keys, vals |-> vals]

EmptyDoc == JObj(<< >>, << >>)

\* obj[key]
RECURSIVE jsonFind(_, _, _)
jsonFind(obj, key, i) ==
  IF i > Len(obj.keys) THEN JNull
  ELSE IF obj.keys[i] = key THEN obj.vals[i]
  ELSE jsonFind(obj, key, i + 1)

jsonGet(obj, key) == IF obj.t = "obj" THEN jsonFind(obj, key, 1) ELSE JNull

isNull(v) == v.t = "null"
isInt(v) == v.t = "int"
asBool(v) == IF v.t = "bool" THEN v.b ELSE IF v.t = "int" THEN v.n # 0 ELSE FALSE
asInt(v) == IF v.t = "int" THEN v.n ELSE IF v.t = "bool" /\ v.b THEN 1 ELSE 0
asString(v) ==
  IF v.t = "str" THEN v.x
  ELSE IF v.t = "int" THEN ToString(v.n)
  ELSE IF v.t = "bool" THEN (IF v.b THEN "true" ELSE "false")
  ELSE "null"

\* request bodies of the model and what deserializeJson makes of them
SetupOn == "{\"auth\":true,\"serialDebug\":false}"
SetupOff == "{\"auth\":false,\"serialDebug\":true}"
SetupPartial == "{\"auth\":true}"
NotJson == "{\"auth\":"
ConfigOut4 == "{\"GPIO4\":{\"mode\":\"Output\",\"state\":1},\"A0\":{\"mode\":\"Analog\"}}"
ConfigPwm16 == "{\"GPIO5\":{\"mode\":\"input\"},\"GPIO16\":{\"mode\":\"Pwm\",\"state\":9}}"
PatchOut4 == "{\"id\":\"gpio4\",\"mode\":\"Output\",\"state\":1}"
PatchState5 == "{\"id\":\"GPIO5\",\"state\":1}"
CronReboot == "{\"cron\":\"* * * * *\",\"action\":\"Reboot\"}"
CronToggle4 == "{\"cron\":\"* * * * *\",\"action\":\"toggle\",\"pin\":\"GPIO4\"}"
CronSet5 == "{\"cron\":\"1,3-4 * * * *\",\"action\":\"set\",\"pin\":\"GPIO5\",\"value\":1}"
CronSet1830 == "{\"cron\":\"30 18 * * *\",\"action\":\"set\",\"pin\":\"GPIO4\",\"value\":1}"
ConfigOut4Low == "{\"GPIO4\":{\"mode\":\"Output\",\"state\":0}}"
CronFourFields == "{\"cron\":\"* * * *\",\"action\":\"toggle\",\"pin\":\"GPIO4\"}"
LongCron == "0,5,10,15,20,25,30,35,40,45,50,55 * * * *"
CronTooLong == "{\"cron\":\"" \o LongCron \o "\",\"action\":\"toggle\",\"pin\":\"GPIO4\"}"

deserializeJson(text) ==
  CASE text = SetupOn ->
         [err |-> FALSE, doc |-> JObj(<<"auth", "serialDebug">>, <<JBool(TRUE), JBool(FALSE)>>)]
    [] text = SetupOff ->
         [err |-> FALSE, doc |-> JObj(<<"auth", "serialDebug">>, <<JBool(FALSE), JBool(TRUE)>>)]
    [] text = SetupPartial ->
         [err |-> FALSE, doc |-> JObj(<<"auth">>, <<JBool(TRUE)>>)]
    [] text = ConfigOut4 ->
         [err |-> FALSE,
          doc |-> JObj(<<"GPIO4", "A0">>,
                       <<JObj(<<"mode", "state">>, <<JStr("Output"), JInt(1)>>),
                         JObj(<<"mode">>, <<JStr("Analog")>>)>>)]
    [] text = ConfigPwm16 ->
         [err |-> FALSE,
          doc |-> JObj(<<"GPIO5", "GPIO16">>,
                       <<JObj(<<"mode">>, <<JStr("input")>>),
                         JObj(<<"mode", "state">>, <<JStr("Pwm"), JInt(9)>>)>>)]
    [] text = PatchOut4 ->
         [err |-> FALSE,
          doc |-> JObj(<<"id", "mode", "state">>, <<JStr("gpio4"), JStr("Output"), JInt(1)>>)]
    [] text = PatchState5 ->
         [err |-> FALSE, doc |-> JObj(<<"id", "state">>, <<JStr("GPIO5"), JInt(1)>>)]
    [] text = CronReboot ->
         [err |-> FALSE,
          doc |-> JObj(<<"cron", "action">>, <<JStr("* * * * *"), JStr("Reboot")>>)]
    [] text = CronToggle4 ->
         [err |-> FALSE,
          doc |-> JObj(<<"cron", "action", "pin">>,
                       <<JStr("* * * * *"), JStr("toggle"), JStr("GPIO4")>>)]
    [] text = CronSet5 ->
         [err |-> FALSE,
          doc |-> JObj(<<"cron", "action", "pin", "value">>,
                       <<JStr("1,3-4 * * * *"), JStr("set"), JStr("GPIO5"), JInt(1)>>)]
    [] text = CronSet1830 ->
         [err |-> FALSE,
          doc |-> JObj(<<"cron", "action", "pin", "value">>,
                       <<JStr("30 18 * * *"), JStr("set"), JStr("GPIO4"), JInt(1)>>)]
    [] text = ConfigOut4Low ->
         [err |-> FALSE,
          doc |-> JObj(<<"GPIO4">>, <<JObj(<<"mode", "state">>, <<JStr("Output"), JInt(0)>>)>>)]
    [] text = CronFourFields ->
         [err |-> FALSE,
          doc |-> JObj(<<"cron", "action", "pin">>,
                       <<JStr("* * * *"), JStr("toggle"), JStr("GPIO4")>>)]
    [] text = CronTooLong ->
         [err |-> FALSE,
          doc |-> JObj(<<"cron", "action", "pin">>,
                       <<JStr(LongCron), JStr("toggle"), JStr("GPIO4")>>)]
    [] OTHER -> [err |-> TRUE, doc |-> EmptyDoc]

\* serializeJson: compact text of a value, members in document order
RECURSIVE serializeJson(_)
RECURSIVE serializeMembers(_, _)
serializeMembers(obj, i) ==
  IF i > Len(obj.keys) THEN ""
  ELSE (IF i > 1 THEN "," ELSE "") \o "\"" \o obj.keys[i] \o "\":"
       \o serializeJson(obj.vals[i]) \o serializeMembers(obj, i + 1)

serializeJson(v) ==
  IF v.t = "obj" THEN "{" \o serializeMembers(v, 1) \o "}"
  ELSE IF v.t = "str" THEN "\"" \o v.x \o "\""
  ELSE asString(v)

(***************************************************************************)
(* ApiContext.cpp                                                          *)
(***************************************************************************)
checkAuth_strict(slots, key, enabled, now, req, uri, doc) ==
  IF ~req.hasNonce \/ ~req.hasAuth THEN [ok |-> FALSE, slots |-> slots]
  ELSE authVerify(slots, key, now, req.ip, toUint32(atol(req.nonce)), uri, "", req.sig)

checkAuth_open(slots, key, enabled, now, req, uri, doc) == [ok |-> TRUE, slots |-> slots]

\* checkAuth(doc) for request req on path uri; returns the verdict and the pool
checkAuth(slots, key, enabled, now, req, uri, doc) ==
  IF ~enabled THEN [ok |-> TRUE, slots |-> slots]
  ELSE IF ~req.hasNonce \/ ~req.hasAuth THEN [ok |-> FALSE, slots |-> slots]
  ELSE LET nonce == toUint32(atol(req.nonce))
           payload == IF ~isNull(doc) /\ Len(doc.keys) > 0
                        THEN serializeJson(doc) ELSE ""
       IN authVerify(slots, key, now, req.ip, nonce, uri, payload, req.sig)

(***************************************************************************)
(* ApiHandle.cpp: what each handler does once checkAuth has passed         *)
(***************************************************************************)
\* the device state a handler leaves behind, with the HTTP status it sends
Outcome(status, msg) ==
  [status |-> status, msg |-> msg, gpio |-> gpioState, gfile |-> gpioFile,
   jobs |-> cronJobsState, cfile |-> cronFile, ee |-> eeprom,
   enabled |-> authEnabled, key |-> authKey, debug |-> debugActive,
   issued |-> issuedKey, restart |-> FALSE, slot |-> -1]

sendError(msg) == Outcome(400, msg)

setupGuard_off(enabled) == FALSE

\* handleSetup calls checkAuth only while authentication is enabled
setupGuard(enabled) == enabled

\* handleSetup after the authentication check; rnd is the key randomBytes draws
handleSetup(req, rnd) ==
  IF ~req.hasBody THEN sendError("missing body")
  ELSE LET d == deserializeJson(req.body) IN
  IF d.err THEN sendError("invalid json")
  ELSE IF isNull(jsonGet(d.doc, "serialDebug")) \/ isNull(jsonGet(d.doc, "auth"))
    THEN sendError("missing parameters")
  ELSE LET authFlag == asBool(jsonGet(d.doc, "auth"))
           debugFlag == asBool(jsonGet(d.doc, "serialDebug"))
           ee1 == setAuthFlag(setSerialDebugFlag(eeprom, debugFlag), authFlag)
           g == generateAuthKey(ee1, authKey, rnd)
       IN [Outcome(200, IF authFlag THEN "authKey" ELSE "") EXCEPT
             !.debug = debugFlag,
             !.enabled = authFlag,
             !.ee = IF authFlag THEN g.eeprom ELSE ee1,
             !.key = IF authFlag THEN g.authKey ELSE authKey,
             !.issued = IF authFlag /\ ~authEnabled THEN rnd
                        ELSE IF authFlag THEN "none" ELSE issuedKey]

handleGetState(req) == Outcome(200, "")

handleGetPin(req) ==
  IF ~req.hasId THEN sendError("missing pin")
  ELSE IF apiToGpio(req.id) < 0 THEN sendError("invalid pin")
  ELSE Outcome(200, "")

\* the JSON-entry loop of handleConfig from entry i on; acc is newConfigs[0..cfgCount)
RECURSIVE parseConfigs(_, _, _)
parseConfigs(obj, i, acc) ==
  IF i > Len(obj.keys) THEN [err |-> "", cfgs |-> acc]
  ELSE IF Len(acc) >= MAX_GPIO_PINS THEN [err |-> "too many pins", cfgs |-> acc]
  ELSE LET pin == apiToGpio(obj.keys[i])
           o == obj.vals[i]
           modeStr == toLowerCase(asString(jsonGet(o, "mode")))
           mode == stringToPinMode(modeStr)
           state == asInt(jsonGet(o, "state"))
       IN
       IF pin < 0 THEN [err |-> "invalid pin id", cfgs |-> acc]
       ELSE IF pin = A0 THEN
         IF isNull(jsonGet(o, "mode")) \/ asString(jsonGet(o, "mode")) # "Analog"
           THEN [err |-> "A0 only supports Analog", cfgs |-> acc]
           ELSE parseConfigs(obj, i + 1, acc)
       ELSE IF isNull(jsonGet(o, "mode")) THEN [err |-> "missing mode", cfgs |-> acc]
       ELSE IF mode = "Disabled" /\ modeStr # "disabled" THEN [err |-> "invalid mode", cfgs |-> acc]
       ELSE IF mode = "Pwm" /\ (~gpioSupportsPWM(toUint8(pin)) \/ state < 0 \/ state > 255)
         THEN [err |-> "PWM range 0-255", cfgs |-> acc]
       ELSE IF mode # "Pwm" /\ ~(state = 0 \/ state = 1)
         THEN [err |-> "digital value must be 0 or 1", cfgs |-> acc]
       ELSE parseConfigs(obj, i + 1, Append(acc, GpioConfig(toUint8(pin), mode, state)))

handleConfig(req, hw) ==
  IF ~req.hasBody THEN sendError("missing body")
  ELSE LET d == deserializeJson(req.body) IN
  IF d.err THEN sendError("invalid json")
  ELSE LET p == parseConfigs(d.doc, 1, << >>) IN
  IF p.err # "" THEN sendError(p.err)
  ELSE LET r == deviceReplaceAll(gpioState, gpioFile, p.cfgs, hw) IN
       [Outcome(IF r.ok THEN 200 ELSE 500, "") EXCEPT !.gpio = r.gpio, !.gfile = r.file]

handlePatchPin(req, hw) ==
  IF ~req.hasBody THEN sendError("missing body")
  ELSE LET d == deserializeJson(req.body) IN
  IF d.err THEN sendError("invalid json")
  ELSE IF isNull(jsonGet(d.doc, "id")) THEN sendError("missing id")
  ELSE LET pin == apiToGpio(asString(jsonGet(d.doc, "id")))
           jmode == jsonGet(d.doc, "mode")
           jstate == jsonGet(d.doc, "state")
           modeStr == toLowerCase(asString(jmode))
           mode == stringToPinMode(modeStr)
  IN
  IF pin < 0 THEN sendError("invalid pin")
  ELSE IF pin = A0 /\ ~isNull(jstate) THEN sendError("cannot set state on A0")
  ELSE IF deviceGet(toUint8(pin)) < 0 THEN Outcome(500, "internal error")
  ELSE LET existing == gpioState[deviceGet(toUint8(pin))]
           cfg1 == IF isNull(jmode) THEN existing ELSE [existing EXCEPT !.mode = mode]
           cfg2 == IF isNull(jstate) THEN cfg1 ELSE [cfg1 EXCEPT !.state = asInt(jstate)]
           r == deviceSet(gpioState, gpioFile, cfg2, hw)
  IN
  IF ~isNull(jmode) /\ mode = "Disabled" /\ modeStr # "disabled" THEN sendError("invalid mode")
  ELSE IF ~isNull(jmode) /\ pin = A0 /\ mode # "Analog" THEN sendError("A0 only supports Analog")
  ELSE IF ~isNull(jmode) /\ pin = 16 /\ mode \in {"InputPullup", "Pwm"}
    THEN sendError("mode not supported on GPIO16")
  ELSE IF ~isNull(jstate) /\ ~isInt(jstate) THEN sendError("invalid value type")
  ELSE IF ~isNull(jstate) /\ cfg1.mode = "Pwm"
          /\ (~gpioSupportsPWM(toUint8(pin)) \/ asInt(jstate) < 0 \/ asInt(jstate) > 255)
    THEN sendError("PWM range 0-255")
  ELSE IF ~isNull(jstate) /\ cfg1.mode # "Pwm" /\ ~(asInt(jstate) = 0 \/ asInt(jstate) = 1)
    THEN sendError("digital value must be 0 or 1")
  ELSE IF ~r.ok THEN Outcome(500, "apply failed")
  ELSE [Outcome(200, "") EXCEPT !.gpio = r.gpio, !.gfile = r.file]

handleReboot(req) == [Outcome(200, "") EXCEPT !.restart = TRUE]

handleGetCron(req) ==
  IF ~req.hasId THEN sendError("missing id")
  ELSE IF cronGet(toUint8(atol(req.id))) < 0 THEN sendError("invalid id")
  ELSE Outcome(200, "")

cronFreeSlot_first(jobs, i) == 0

cronFreeSlot_last(jobs, i) ==
  IF \A k \in JobIdx : jobs[k].active THEN -1
  ELSE CHOOSE k \in JobIdx : ~jobs[k].active /\ \A m \in JobIdx : ~jobs[m].active => m <= k

\* the free-slot search of handleCronSet: lowest index whose job is not active
RECURSIVE cronFreeSlot(_, _)
cronFreeSlot(jobs, i) ==
  IF i >= MAX_CRON_JOBS THEN -1
  ELSE IF ~jobs[i].active THEN i
  ELSE cronFreeSlot(jobs, i + 1)

handleCronSet(req, wr) ==
  IF ~req.hasBody THEN sendError("missing body")
  ELSE LET d == deserializeJson(req.body) IN
  IF d.err THEN sendError("invalid json")
  ELSE IF isNull(jsonGet(d.doc, "cron")) \/ isNull(jsonGet(d.doc, "action"))
    THEN sendError("missing cron or action")
  ELSE LET action == toLowerCase(asString(jsonGet(d.doc, "action")))
           act == IF action = "set" THEN "SetPinState"
                  ELSE IF action = "toggle" THEN "TogglePinState"
                  ELSE IF action = "reboot" THEN "Reboot" ELSE "invalid"
           pin == apiToGpio(asString(jsonGet(d.doc, "pin")))
           usesPin == act \in {"SetPinState", "TogglePinState"}
           job == [ZeroJob EXCEPT
                     !.active = TRUE,
                     !.lastExecEpoch = 0,
                     !.cron = strTruncate(asString(jsonGet(d.doc, "cron")), CRON_EXPR_SIZE),
                     !.action = act,
                     !.pin = IF usesPin THEN toUint8(pin) ELSE 0,
                     !.value = IF usesPin THEN asInt(jsonGet(d.doc, "value")) ELSE 0]
           i == cronFreeSlot(cronJobsState, 0)
           w == setCronJob(cronJobsState, cronFile, i, job, wr)
  IN
  IF act = "invalid" THEN sendError("invalid action")
  ELSE IF usesPin /\ isNull(jsonGet(d.doc, "pin")) THEN sendError("missing pin")
  ELSE IF usesPin /\ pin < 0 THEN sendError("invalid pin")
  ELSE IF i < 0 THEN sendError("no free job slot")
  ELSE IF ~w.ok
    THEN [Outcome(500, "save failed") EXCEPT !.jobs = w.jobs, !.cfile = w.file, !.slot = i]
  ELSE [Outcome(200, "") EXCEPT !.jobs = w.jobs, !.cfile = w.file, !.slot = i]

handleDeleteCron_erase(req, wr) ==
  IF ~req.hasId THEN sendError("missing id")
  ELSE IF cronGet(toUint8(atol(req.id))) < 0 THEN sendError("invalid id")
  ELSE [Outcome(200, "") EXCEPT
          !.jobs = [cronJobsState EXCEPT ![toUint8(atol(req.id))] = ZeroJob],
          !.cfile = storageWrite([cronJobsState EXCEPT ![toUint8(atol(req.id))] = ZeroJob])]

handleDeleteCron(req, wr) ==
  IF ~req.hasId THEN sendError("missing id")
  ELSE LET id == toUint8(atol(req.id)) IN
  IF cronGet(id) < 0 THEN sendError("invalid id")
  ELSE LET w == setCronJob(cronJobsState, cronFile, id,
                           [cronJobsState[id] EXCEPT !.active = FALSE], wr)
       IN [Outcome(200, "") EXCEPT !.jobs = w.jobs, !.cfile = w.file]

\* handleClearCron: every slot is deactivated and the table written after
\* each one; the result of the writes is not looked at, and the file is left
\* as the last write, of the table with every slot deactivated, leaves it
handleClearCron(req, wr) ==
  LET cleared == [i \in JobIdx |-> [cronJobsState[i] EXCEPT !.active = FALSE]]
  IN [Outcome(200, "") EXCEPT !.jobs = cleared,
                              !.cfile = storageWriteAs(cronFile, cleared, wr).file]

(***************************************************************************)
(* Signatures a client may send for a request                              *)
(***************************************************************************)
GoodSig(key, nonce, uri, payload) ==
  bytesToHex(hmacSha256(key, ToString(nonce) \o uri \o payload))

SignedTexts(nonce, uri, payload) ==
  { ToString(nonce) \o uri \o payload,
    ToString(nonce) \o uri \o " " \o payload,
    ToString(nonce) \o uri }

SigChoices(nonce, uri, payload) ==
  { bytesToHex(hmacSha256(k, t)) : k \in {"K1"}, t \in SignedTexts(nonce, uri, payload) }
  \cup { bytesToHex(hmacSha256("K2", ToString(nonce) \o uri \o payload)) }
  \cup { [bytesToHex(hmacSha256("K1", ToString(nonce) \o uri \o payload)) EXCEPT !.upper = TRUE],
         [bytesToHex(hmacSha256("K1", ToString(nonce) \o uri \o payload)) EXCEPT !.len = 63],
         [bytesToHex(hmacSha256("K1", ToString(nonce) \o uri \o payload)) EXCEPT !.hex = FALSE] }

Requests(nonce) ==
  { <<"/api/state", "{\"a\":1}", sg>> : sg \in SigChoices(nonce, "/api/state", "{\"a\":1}") }
  \cup { <<"/api/state", LongBody, bytesToHex(hmacSha256("K1", ToString(nonce) \o "/api/state" \o LongBody))>> }
  \cup { <<"/api/state", EdgeBody, bytesToHex(hmacSha256("K1", ToString(nonce) \o "/api/state" \o EdgeBody))>> }

(***************************************************************************)
(* Authentication engine: state machine                                    *)
(***************************************************************************)
NoRet == [op |-> "none"]

NoFile == [present |-> FALSE, data |-> << >>]

\* the rest of the device after a first boot with empty storage at wall-clock time e
InitDeviceAt(e) ==
  /\ gpioFile = NoFile
  /\ gpioState = deviceInit(NoFile)
  /\ cronFile = NoFile
  /\ cronJobsState = cronSchedulerInit(NoFile).buf
  /\ debugActive = FALSE
  /\ epoch = e
  /\ lastPrint = 0
  /\ issuedKey = "none"
  /\ firedMin = [i \in JobIdx |-> -1]

InitDevice == InitDeviceAt(EpochStart)

InitAuth ==
  /\ authSlots = [i \in SlotIdx |-> EmptySlot]
  /\ authKey = "K1"
  /\ authEnabled = TRUE
  /\ millis \in StartMillis
  /\ eeprom = [authFlag |-> TRUE, authKey |-> "K1", debugFlag |-> FALSE]
  /\ ticks = 0
  /\ spent = {}
  /\ ret = NoRet
  /\ InitDevice

\* the clock advances between calls
Advance(d) ==
  /\ ticks < MaxTicks
  /\ ticks' = ticks + 1
  /\ millis' = (millis + d) % UINT_MOD
  /\ ret' = [op |-> "advance"]
  /\ UNCHANGED <<authVars, eeprom, spent, devVars>>

\* setup() after a restart: authInit()
AuthInit ==
  /\ authSlots' = [i \in SlotIdx |-> EmptySlot]
  /\ authEnabled' = authInitEnabled(eeprom)
  /\ authKey' = authInitKey(eeprom, authKey)
  /\ millis' = 0
  /\ ret' = [op |-> "authInit"]
  /\ UNCHANGED <<eeprom, ticks, spent, devVars>>

GenerateChallenge(ip, rnd) ==
  /\ authSlots' = authGenerateChallenge(authSlots, millis, ip, rnd)
  /\ spent' = spent \ {<<ip, rnd>>}
  /\ ret' = [op |-> "challenge", ip |-> ip, nonce |-> rnd,
             full |-> (findFreeSlot(authSlots) < 0),
             known |-> (findSlotByIp(authSlots, ip) >= 0),
             prev |-> IF findSlotByIp(authSlots, ip) >= 0
                        THEN authSlots[findSlotByIp(authSlots, ip)].nonce ELSE -1]
  /\ UNCHANGED <<authKey, authEnabled, millis, eeprom, ticks, devVars>>

Verify(ip, nonce, uri, payload, signature) ==
  LET r == authVerify(authSlots, authKey, millis, ip, nonce, uri, payload, signature)
      idx == findSlotByIp(authSlots, ip)
      matched == idx >= 0 /\ authSlots[idx].nonce = nonce
      age == IF matched THEN elapsedMs(millis, authSlots[idx].timestamp) ELSE 0
  IN
  /\ authSlots' = r.slots
  /\ spent' = spent \cup {<<ip, nonce>>}
  /\ ret' = [op |-> "verify", ok |-> r.ok, ip |-> ip, nonce |-> nonce,
             hadSlot |-> (idx >= 0),
             replay |-> (<<ip, nonce>> \in spent),
             matched |-> matched,
             age |-> IF ~matched THEN "none"
                     ELSE IF age = NONCE_TIMEOUT_MS + 1 THEN "plus1"
                     ELSE IF age = NONCE_TIMEOUT_MS - 1 THEN "minus1"
                     ELSE IF age > NONCE_TIMEOUT_MS THEN "late"
                     ELSE "early",
             wellFormed |-> (signature.hex /\ signature.len = SIG_HEX_LEN),
             macOk |-> (signature.mac = hmacSha256(authKey, ToString(nonce) \o uri \o payload)),
             sized |-> ~(Len(ToString(nonce)) + Len(uri) + Len(payload) > DATA_BUF_SIZE),
             fits |-> (Len(ToString(nonce) \o uri \o payload) + 1 <= DATA_BUF_SIZE)]
  /\ UNCHANGED <<authKey, authEnabled, millis, eeprom, ticks, devVars>>

\* the other outcome of an authVerify call that writes past data[1024]: the
\* stray byte lands on live stack contents, the call does not return and the
\* device restarts (setup() runs authInit())
VerifyOverrun(ip, nonce, uri, payload, signature) ==
  /\ authVerifyOverruns(authSlots, millis, ip, nonce, uri, payload, signature)
  /\ authSlots' = [i \in SlotIdx |-> EmptySlot]
  /\ authEnabled' = authInitEnabled(eeprom)
  /\ authKey' = authInitKey(eeprom, ZeroKey)
  /\ millis' = 0
  /\ spent' = spent \cup {<<ip, nonce>>}
  /\ ret' = [op |-> "crash"]
  /\ UNCHANGED <<eeprom, ticks, devVars>>

NextAuth ==
  \/ \E d \in Deltas : Advance(d)
  \/ \E ip \in Clients, rnd \in NonceVals : GenerateChallenge(ip, rnd)
  \/ \E ip \in Clients, nonce \in NonceVals : \E rq \in Requests(nonce) :
       Verify(ip, nonce, rq[1], rq[2], rq[3])
  \/ \E ip \in Clients, nonce \in NonceVals : \E rq \in Requests(nonce) :
       VerifyOverrun(ip, nonce, rq[1], rq[2], rq[3])

Spec == InitAuth /\ [][NextAuth]_vars

(***************************************************************************)
(* The slot pool under more identities than slots                          *)
(***************************************************************************)
ActiveIps(slots) == { slots[i].ip : i \in { j \in SlotIdx : slots[j].active } }

\* identities are only compared for equality, so an identity without a slot
\* is represented by the lowest-numbered one
PoolRequesters(slots) ==
  (ActiveIps(slots) \cap Clients) \cup
  { CHOOSE c \in PoolClients \ ActiveIps(slots) :
      \A e \in PoolClients \ ActiveIps(slots) : c <= e }

NextPool ==
  \/ \E d \in Deltas : Advance(d)
  \/ AuthInit
  \/ \E ip \in PoolRequesters(authSlots), rnd \in PoolNonces : GenerateChallenge(ip, rnd)
  \/ \E ip \in ActiveIps(authSlots) \cap Clients, nonce \in PoolNonces :
       Verify(ip, nonce, "/api/state", "", GoodSig(authKey, nonce, "/api/state", ""))

SpecPool == InitAuth /\ [][NextPool]_vars

(***************************************************************************)
(* The device: restart, HTTP handlers, clock and scheduler pass            *)
(***************************************************************************)
\* jobs stored at a time in the scheduler specification and in the API one
MaxJobs == 2
MaxApiJobs == 1
MaxElapsed == 63
MaxHolds == 1

ApiClients == {1}
\* a second client, which only requests a challenge while the first holds one
OtherClients == {2}
RandomKeys == {"K1", "K2"}
HwLevels == {1}

NoSig == [len |-> 0, hex |-> TRUE, upper |-> FALSE, mac |-> <<"", "">>]

\* keys a client may sign with: the key the device verifies with, the key
\* in EEPROM and the key the last setup response handed out
SignerKeys == ({authKey, eeprom.authKey, issuedKey} \cap Keys)

\* nonces a client may send: the ones the pool holds for it, else a made-up one
HeaderNonces ==
  IF \E i \in SlotIdx : authSlots[i].active /\ authSlots[i].ip \in ApiClients
    THEN { authSlots[i].nonce :
             i \in { j \in SlotIdx : authSlots[j].active /\ authSlots[j].ip \in ApiClients } }
    ELSE {7}

\* the authentication headers a client may attach to a request
HeaderChoices(uri, body) ==
  { [hasNonce |-> FALSE, hasAuth |-> FALSE, nonce |-> "", sig |-> NoSig],
    [hasNonce |-> TRUE, hasAuth |-> FALSE, nonce |-> "7", sig |-> NoSig] }
  \cup { [hasNonce |-> TRUE, hasAuth |-> TRUE, nonce |-> ToString(n),
          sig |-> GoodSig(k, n, uri, t)] :
         n \in HeaderNonces, k \in SignerKeys, t \in {"", body} }

NoHeaders(uri, body) ==
  { [hasNonce |-> FALSE, hasAuth |-> FALSE, nonce |-> "", sig |-> NoSig] }

NoArg == [has |-> FALSE, v |-> ""]
Arg(v) == [has |-> TRUE, v |-> v]

\* a request: client, headers, body ("" when there is none) and id argument
Request(ip, h, body, id) ==
  [ip |-> ip, hasNonce |-> h.hasNonce, hasAuth |-> h.hasAuth, nonce |-> h.nonce,
   sig |-> h.sig, hasBody |-> (body # ""), body |-> body, hasId |-> id.has, id |-> id.v]

\* setup(): RAM rebuilt from EEPROM image ee and the files gfile and cfile
Restart(ee, gfile, cfile) ==
  /\ eeprom' = ee
  /\ gpioFile' = gfile
  /\ cronFile' = cfile
  /\ debugActive' = debugInit(ee)
  /\ gpioState' = deviceInit(gfile)
  /\ authSlots' = [i \in SlotIdx |-> EmptySlot]
  /\ authEnabled' = authInitEnabled(ee)
  /\ authKey' = authInitKey(ee, ZeroKey)
  /\ cronJobsState' = cronSchedulerInit(cfile).buf
  /\ millis' = 0
  /\ lastPrint' = 0
  /\ issuedKey' = "none"

\* what the request looked like to the authentication layer
ReqInfo(op, uri, req, h) ==
  LET idx == findSlotByIp(authSlots, req.ip) IN
  [op |-> op, status |-> h.status, msg |-> h.msg, restart |-> h.restart,
   authOn |-> authEnabled,
   hdrs |-> (req.hasNonce /\ req.hasAuth),
   verified |-> (req.hasNonce /\ req.hasAuth
                 /\ authVerify(authSlots, authKey, millis, req.ip,
                               toUint32(atol(req.nonce)), uri, "", req.sig).ok),
   hasBody |-> req.hasBody,
   id |-> req.id,
   slot |-> h.slot,
   held |-> (h.restart /\ \E i \in SlotIdx : authSlots[i].active /\ authSlots[i].ip # req.ip),
   covers |-> (req.sig.mac[2] = req.nonce \o uri \o req.body),
   signed |-> (/\ req.hasNonce /\ req.hasAuth
               /\ idx >= 0
               /\ ~nonceExpired(millis, authSlots[idx].timestamp)
               /\ req.nonce = ToString(authSlots[idx].nonce)
               /\ req.sig = GoodSig(authKey, authSlots[idx].nonce, uri, req.body)),
   honest |-> (/\ issuedKey # "none"
               /\ req.hasNonce /\ req.hasAuth
               /\ idx >= 0
               /\ ~nonceExpired(millis, authSlots[idx].timestamp)
               /\ req.nonce = ToString(authSlots[idx].nonce)
               /\ req.sig = GoodSig(issuedKey, authSlots[idx].nonce, uri, req.body))]

\* one HTTP exchange: the authentication check (when the handler makes one),
\* then the handler body with outcome out
Handle(op, uri, req, checks, out) ==
  \E a \in { IF checks
               THEN checkAuth(authSlots, authKey, authEnabled, millis, req, uri, EmptyDoc)
               ELSE [ok |-> TRUE, slots |-> authSlots] } :
  \E h \in { IF a.ok THEN out ELSE Outcome(401, "unauthorized") } :
  /\ ret' = ReqInfo(op, uri, req, h)
  /\ firedMin' = IF h.slot >= 0 THEN [firedMin EXCEPT ![h.slot] = -1] ELSE firedMin
  /\ IF h.restart
       THEN Restart(h.ee, h.gfile, h.cfile)
       ELSE /\ authSlots' = a.slots
            /\ gpioState' = h.gpio
            /\ gpioFile' = h.gfile
            /\ cronJobsState' = h.jobs
            /\ cronFile' = h.cfile
            /\ eeprom' = h.ee
            /\ authEnabled' = h.enabled
            /\ authKey' = h.key
            /\ debugActive' = h.debug
            /\ issuedKey' = h.issued
            /\ UNCHANGED <<millis, lastPrint>>
  /\ UNCHANGED <<epoch, ticks, spent>>

handleAuthChallenge_open(slots, enabled, now, ip, rnd) ==
  [status |-> 200, msg |-> "", nonce |-> rnd,
   slots |-> authGenerateChallenge(slots, now, ip, rnd)]

\* handleAuthChallenge: the handler reads no header and makes no checkAuth call
handleAuthChallenge(slots, enabled, now, ip, rnd) ==
  IF ~enabled
    THEN [status |-> 400, msg |-> "authentication disabled", nonce |-> 0, slots |-> slots]
    ELSE [status |-> 200, msg |-> "", nonce |-> rnd,
          slots |-> authGenerateChallenge(slots, now, ip, rnd)]

\* GET /api/auth/challenge
ApiAuthChallenge(ip, rnd) ==
  /\ \E h \in { handleAuthChallenge(authSlots, authEnabled, millis, ip, rnd) } :
       /\ ret' = [op |-> "challenge", status |-> h.status, msg |-> h.msg,
                  ip |-> ip, nonce |-> h.nonce,
                  full |-> (authEnabled /\ findFreeSlot(authSlots) < 0),
                  known |-> (authEnabled /\ findSlotByIp(authSlots, ip) >= 0)]
       /\ authSlots' = h.slots
  /\ UNCHANGED <<authKey, authEnabled, millis, eeprom, ticks, spent, devVars>>

\* POST /api/setup
ApiSetup(req, rnd) ==
  Handle("setup", "/api/setup", req, setupGuard(authEnabled), handleSetup(req, rnd))

\* GET /api/state
ApiGetState(req) == Handle("state", "/api/state", req, TRUE, handleGetState(req))

\* GET /api/pin
ApiGetPin(req) == Handle("pin", "/api/pin", req, TRUE, handleGetPin(req))

\* POST /api/config
ApiConfig(req, hw) == Handle("config", "/api/config", req, TRUE, handleConfig(req, hw))

\* PATCH /api/pin/set
ApiPatchPin(req, hw) == Handle("pinSet", "/api/pin/set", req, TRUE, handlePatchPin(req, hw))

\* POST /api/reboot
ApiReboot(req) == Handle("reboot", "/api/reboot", req, TRUE, handleReboot(req))

\* GET /api/cron
ApiGetCron(req) == Handle("cronGet", "/api/cron", req, TRUE, handleGetCron(req))

\* PATCH /api/cron/set
ApiCronSet(req, wr) ==
  Handle("cronSet", "/api/cron/set", req, TRUE, handleCronSet(req, wr))

ActiveJobs == Cardinality({ i \in JobIdx : cronJobsState[i].active })

\* DELETE /api/cron
ApiDeleteCron(req, wr) ==
  Handle("cronDelete", "/api/cron", req, TRUE, handleDeleteCron(req, wr))

\* DELETE /api/cron/clear
ApiClearCron(req, wr) ==
  Handle("cronClear", "/api/cron/clear", req, TRUE, handleClearCron(req, wr))

\* the steps of the wall clock explored: second by second inside the
\* tolerance window, and from any second to the start of the next minute
TickSteps(e) ==
  IF localtime(e).tm_sec <= CRON_EXEC_WINDOW_SEC
    THEN {1, 60 - localtime(e).tm_sec}
    ELSE {60 - localtime(e).tm_sec}

\* the wall-clock time at which the run that has reached time e started
ClockStart(e) ==
  CHOOSE s \in StartEpochs : s <= e /\ \A t \in StartEpochs : t <= e => t <= s

\* time passes: sec seconds on the wall clock and on the millisecond counter
Tick(sec) ==
  /\ epoch + sec <= ClockStart(epoch) + MaxElapsed
  /\ epoch' = epoch + sec
  /\ millis' = (millis + 1000 * sec) % UINT_MOD
  /\ ret' = [op |-> "tick"]
  /\ UNCHANGED <<authVars, eeprom, ticks, spent, gpioState, gpioFile, cronJobsState,
                 cronFile, debugActive, lastPrint, issuedKey, firedMin>>

\* a second passes on the millisecond counter while the network time
\* synchronisation holds the wall clock at the same second
Hold ==
  /\ ticks < MaxHolds
  /\ ticks' = ticks + 1
  /\ millis' = (millis + 1000) % UINT_MOD
  /\ ret' = [op |-> "hold"]
  /\ UNCHANGED <<authVars, eeprom, spent, gpioState, gpioFile, cronJobsState,
                 cronFile, debugActive, epoch, lastPrint, issuedKey, firedMin>>

\* timeClient.update() corrects the wall clock backwards, to the time the
\* run started at; the millisecond counter goes on (explored in the run that
\* starts at EpochStart)
Resync ==
  /\ ticks < MaxHolds
  /\ ClockStart(epoch) = EpochStart
  /\ epoch > ClockStart(epoch)
  /\ ticks' = ticks + 1
  /\ epoch' = ClockStart(epoch)
  /\ millis' = (millis + 1000) % UINT_MOD
  /\ ret' = [op |-> "resync"]
  /\ UNCHANGED <<authVars, eeprom, spent, gpioState, gpioFile, cronJobsState,
                 cronFile, debugActive, lastPrint, issuedKey, firedMin>>

\* cronSchedulerLoop when its once-per-second gate is open
CronSchedulerLoop(hw) ==
  \E r \in { cronPass([gpio |-> gpioState, gfile |-> gpioFile, jobs |-> cronJobsState,
                         restart |-> FALSE, fired |-> {}, stamped |-> {},
                         refused |-> {}],
                        0, epoch, hw) } :
  /\ elapsedMs(millis, lastPrint) >= 1000
  /\ ret' = [op |-> "cron", fired |-> r.fired, stamped |-> r.stamped,
             refused |-> r.refused, restart |-> r.restart,
             again |-> { i \in r.fired : firedMin[i] = epoch \div 60 },
             sec |-> localtime(epoch).tm_sec]
  /\ firedMin' = [i \in JobIdx |-> IF i \in r.fired THEN epoch \div 60 ELSE firedMin[i]]
  /\ IF r.restart
       THEN Restart(eeprom, r.gfile, cronFile)
       ELSE /\ lastPrint' = millis
            /\ gpioState' = r.gpio
            /\ gpioFile' = r.gfile
            /\ cronJobsState' = r.jobs
            /\ UNCHANGED <<authVars, eeprom, millis, cronFile, debugActive, issuedKey>>
  /\ UNCHANGED <<epoch, ticks, spent>>

\* the device after a boot with authentication off, or on with key K1
InitApi ==
  /\ eeprom \in { [authFlag |-> FALSE, authKey |-> ZeroKey, debugFlag |-> FALSE],
                  [authFlag |-> TRUE, authKey |-> "K1", debugFlag |-> FALSE] }
  /\ authSlots = [i \in SlotIdx |-> EmptySlot]
  /\ authEnabled = authInitEnabled(eeprom)
  /\ authKey = authInitKey(eeprom, ZeroKey)
  /\ millis = 0
  /\ ticks = 0
  /\ spent = {}
  /\ ret = NoRet
  /\ InitDevice

NextApi ==
  \/ \E ip \in ApiClients, rnd \in NonceVals : ApiAuthChallenge(ip, rnd)
  \/ /\ findSlotByIp(authSlots, 1) >= 0 /\ authSlots[findSlotByIp(authSlots, 1)].nonce = 7
     /\ \E ip \in OtherClients, rnd \in {7} : ApiAuthChallenge(ip, rnd)
  \/ \E b \in {SetupOn, SetupOff, SetupPartial} :
       \E h \in HeaderChoices("/api/setup", b) :
         \E rnd \in (IF b = SetupOn THEN RandomKeys ELSE {"K1"}) :
           ApiSetup(Request(1, h, b, NoArg), rnd)
  \/ \E h \in HeaderChoices("/api/state", "") : ApiGetState(Request(1, h, "", NoArg))
  \/ \E id \in {Arg("gpio4")} :
       \E h \in HeaderChoices("/api/pin", "") : ApiGetPin(Request(1, h, "", id))
  \/ \E b \in {ConfigOut4}, hw \in HwLevels :
       \E h \in HeaderChoices("/api/config", b) : ApiConfig(Request(1, h, b, NoArg), hw)
  \/ \E b \in {PatchOut4}, hw \in HwLevels :
       \E h \in HeaderChoices("/api/pin/set", b) : ApiPatchPin(Request(1, h, b, NoArg), hw)
  \/ \E h \in HeaderChoices("/api/reboot", "") : ApiReboot(Request(1, h, "", NoArg))
  \/ \E id \in {Arg("1")} :
       \E h \in HeaderChoices("/api/cron", "") : ApiGetCron(Request(1, h, "", id))
  \/ /\ ActiveJobs < MaxApiJobs
     /\ \E b \in {CronToggle4} :
          \E h \in HeaderChoices("/api/cron/set", b) : ApiCronSet(Request(1, h, b, NoArg), WriteOk)
  \/ \E id \in {Arg("0")} :
       \E h \in HeaderChoices("/api/cron", "") : ApiDeleteCron(Request(1, h, "", id), WriteOk)
  \/ \E h \in HeaderChoices("/api/cron/clear", "") : ApiClearCron(Request(1, h, "", NoArg), WriteOk)

SpecApi == InitApi /\ [][NextApi]_vars

\* the device after a boot with authentication off and empty storage
InitCron ==
  /\ eeprom = [authFlag |-> FALSE, authKey |-> ZeroKey, debugFlag |-> FALSE]
  /\ authSlots = [i \in SlotIdx |-> EmptySlot]
  /\ authEnabled = authInitEnabled(eeprom)
  /\ authKey = authInitKey(eeprom, ZeroKey)
  /\ millis = 0
  /\ ticks = 0
  /\ spent = {}
  /\ ret = NoRet
  /\ \E e \in StartEpochs : InitDeviceAt(e)

\* the requests explored in a run: the every-minute jobs in the run that
\* starts at EpochStart, the 18:30 job in the runs that start at 18:29
CronBodies(e) ==
  IF ClockStart(e) = EpochStart THEN {CronReboot, CronToggle4} ELSE {CronSet1830, CronReboot}

PatchBodies(e) == IF ClockStart(e) = EpochStart THEN {PatchOut4} ELSE {}

ConfigBodies(e) == IF ClockStart(e) = EpochStart THEN {} ELSE {ConfigOut4Low}

NextCron ==
  \/ \E sec \in TickSteps(epoch) : Tick(sec)
  \/ Hold
  \/ Resync
  \/ \E hw \in HwLevels : CronSchedulerLoop(hw)
  \/ /\ ActiveJobs < MaxJobs
     /\ \E b \in CronBodies(epoch) :
          \E h \in NoHeaders("/api/cron/set", b) : ApiCronSet(Request(1, h, b, NoArg), WriteOk)
  \/ \E b \in PatchBodies(epoch), hw \in HwLevels :
       \E h \in NoHeaders("/api/pin/set", b) : ApiPatchPin(Request(1, h, b, NoArg), hw)
  \/ \E b \in ConfigBodies(epoch), hw \in HwLevels :
       \E h \in NoHeaders("/api/config", b) : ApiConfig(Request(1, h, b, NoArg), hw)

SpecCron == InitCron /\ [][NextCron]_vars

(***************************************************************************)
(* The job table: requests, direct calls, write failures and power cycles  *)
(***************************************************************************)
\* number of stored jobs up to which write failures, malformed requests and
\* direct calls are explored; beyond it the table is only filled
MaxTableJobs == 1
\* records a short write leaves in the file
ShortRecords == 1

\* the ids requested while few jobs are stored or the table is full
TableIds ==
  IF ActiveJobs <= MaxTableJobs \/ ActiveJobs = MAX_CRON_JOBS
    THEN {"0", "32", "256", "-1"} ELSE {}
TableIndexes == {0, MAX_CRON_JOBS - 1, MAX_CRON_JOBS, 255}
TableJob == [ZeroJob EXCEPT !.active = TRUE, !.cron = "* * * * *",
                            !.action = "TogglePinState", !.pin = 5]

TableBodies ==
  IF ActiveJobs < MaxTableJobs THEN {CronToggle4, CronFourFields, CronTooLong}
  ELSE {CronToggle4}

TableWrites ==
  IF ActiveJobs < MaxTableJobs THEN {WriteOk, WriteNoOpen, WriteShort(ShortRecords)}
  ELSE {WriteOk}

\* a direct call of setCronJob(index, job)
SetCronJob(index, job, wr) ==
  \E w \in { setCronJob(cronJobsState, cronFile, index, job, wr) } :
    /\ cronJobsState' = w.jobs
    /\ cronFile' = w.file
    /\ ret' = [op |-> "setCronJob", index |-> index, ok |-> w.ok, wr |-> wr.kind]
    /\ firedMin' = [i \in JobIdx |-> IF i = index THEN -1 ELSE firedMin[i]]
    /\ UNCHANGED <<authVars, millis, eeprom, ticks, spent, gpioState, gpioFile,
                   debugActive, epoch, lastPrint, issuedKey>>

\* power is cut and restored: setup() runs on what storage holds
PowerCycle ==
  /\ Restart(eeprom, gpioFile, cronFile)
  /\ ret' = [op |-> "boot", cronOk |-> cronSchedulerInit(cronFile).ok,
             whole |-> (cronFile.present /\ DOMAIN cronFile.data = JobIdx)]
  /\ UNCHANGED <<epoch, ticks, spent, firedMin>>

InitTable ==
  /\ eeprom = [authFlag |-> FALSE, authKey |-> ZeroKey, debugFlag |-> FALSE]
  /\ authSlots = [i \in SlotIdx |-> EmptySlot]
  /\ authEnabled = authInitEnabled(eeprom)
  /\ authKey = authInitKey(eeprom, ZeroKey)
  /\ millis = 0
  /\ ticks = 0
  /\ spent = {}
  /\ ret = NoRet
  /\ InitDevice

NextTable ==
  \/ \E b \in TableBodies, wr \in TableWrites :
       \E h \in NoHeaders("/api/cron/set", b) : ApiCronSet(Request(1, h, b, NoArg), wr)
  \/ \E id \in TableIds :
       \E h \in NoHeaders("/api/cron", "") : ApiGetCron(Request(1, h, "", Arg(id)))
  \/ \E id \in TableIds, wr \in TableWrites :
       \E h \in NoHeaders("/api/cron", "") : ApiDeleteCron(Request(1, h, "", Arg(id)), wr)
  \/ /\ ActiveJobs <= MaxTableJobs \/ ActiveJobs = MAX_CRON_JOBS
     /\ \E wr \in TableWrites :
          \E h \in NoHeaders("/api/cron/clear", "") :
            ApiClearCron(Request(1, h, "", NoArg), wr)
  \/ /\ ActiveJobs < MaxTableJobs
     /\ \E index \in TableIndexes, wr \in TableWrites : SetCronJob(index, TableJob, wr)
  \/ /\ ActiveJobs <= MaxTableJobs \/ ActiveJobs = MAX_CRON_JOBS
     /\ PowerCycle

SpecTable == InitTable /\ [][NextTable]_vars

(***************************************************************************)
(* The life of a job: added, run by the scheduler, deleted, cleared        *)
(***************************************************************************)
\* seconds of wall-clock time explored
MaxLifeElapsed == 2

LifeIds == {"0", "1", "32", "256"}

NextLife ==
  \/ /\ epoch < EpochStart + MaxLifeElapsed
     /\ Tick(1)
  \/ \E hw \in HwLevels : CronSchedulerLoop(hw)
  \/ /\ ActiveJobs < MaxJobs
     /\ \E h \in NoHeaders("/api/cron/set", CronToggle4) :
          ApiCronSet(Request(1, h, CronToggle4, NoArg), WriteOk)
  \/ \E id \in LifeIds :
       \E h \in NoHeaders("/api/cron", "") :
         ApiDeleteCron(Request(1, h, "", Arg(id)), WriteOk)
  \/ \E h \in NoHeaders("/api/cron/clear", "") :
       ApiClearCron(Request(1, h, "", NoArg), WriteOk)

SpecLife == InitTable /\ [][NextLife]_vars

(***************************************************************************)
(* The cron matcher applied to expressions built from their parts          *)
(***************************************************************************)
\* a field is "*" or a comma list of elements; an element is a number <<a>>
\* or a range <<a, b>>
Star == [star |-> TRUE, elems |-> << >>]
List(elems) == [star |-> FALSE, elems |-> elems]

renderElem(el) ==
  IF Len(el) = 1 THEN ToString(el[1]) ELSE ToString(el[1]) \o "-" \o ToString(el[2])

RECURSIVE renderElems(_, _)
renderElems(elems, i) ==
  IF i > Len(elems) THEN ""
  ELSE (IF i > 1 THEN "," ELSE "") \o renderElem(elems[i]) \o renderElems(elems, i + 1)

\* the text of a field
renderField(f) == IF f.star THEN "*" ELSE renderElems(f.elems, 1)

\* the text of an expression: its fields separated by one space
RECURSIVE renderCron(_, _)
renderCron(fields, i) ==
  IF i > Len(fields) THEN ""
  ELSE (IF i > 1 THEN " " ELSE "") \o renderField(fields[i]) \o renderCron(fields, i + 1)

MatchFields ==
  { Star,
    List(<< <<5>> >>),
    List(<< <<5>>, <<10, 20>> >>),
    List(<< <<20, 10>> >>),
    List(<< <<1>>, <<3>>, <<5>> >>),
    List(<< <<0>>, <<10>>, <<20>>, <<30>>, <<40>>, <<50>> >>) }

MatchValues == 0 .. 59

MatchExprs ==
  { << Star, Star, Star, Star >>,
    << Star, Star, Star, Star, Star >>,
    << Star, Star, Star, Star, Star, Star >>,
    << List(<< <<30>> >>), List(<< <<18>> >>), Star, Star, Star >>,
    << List(<< <<30>> >>), List(<< <<18>> >>), Star, Star, Star, List(<< <<1970>> >>) >>,
    << List(<< <<0>> >>), List(<< <<7>> >>), Star, Star, List(<< <<1>> >>) >>,
    << List(<< <<5>>, <<10, 20>> >>), Star, List(<< <<1, 5>> >>), List(<< <<1>> >>), Star >> }

\* 18:29:00, 18:30:00, 18:30:01 and 18:30:03 on Thursday 1970-01-01, 07:00:00
\* on Monday 1970-01-05, 07:15:02 on Tuesday 1970-01-06 (local time)
MatchEpochs ==
  { ScenarioStart, ScenarioStart + 60, ScenarioStart + 61, ScenarioStart + 63,
    4 * 86400 + 6 * 3600, 5 * 86400 + 6 * 3600 + 15 * 60 + 2 }

\* cronFieldMatch(expr, value) on the text of field f
CronFieldMatch(f, v) ==
  /\ ret' = [op |-> "fieldMatch", field |-> f, value |-> v,
             result |-> cronFieldMatch(renderField(f), v)]
  /\ UNCHANGED <<authVars, millis, eeprom, ticks, spent, devVars>>

\* cronMatch(job, nowEpoch) on a job that has never run and holds the text of
\* the expression
CronMatch(fields, e) ==
  /\ ret' = [op |-> "cronMatch", fields |-> fields, now |-> e,
             result |-> cronMatch([ZeroJob EXCEPT !.active = TRUE,
                                                  !.cron = renderCron(fields, 1)], e)]
  /\ UNCHANGED <<authVars, millis, eeprom, ticks, spent, devVars>>

\* steps n of the documented syntax "*/n", and 18:00:00, 18:10:00, 18:15:00,
\* 18:20:00 and 18:25:00 on 1970-01-01 (local time)
StepValues == {10, 15}
StepEpochs ==
  { ScenarioStart - 29 * 60, ScenarioStart - 19 * 60, ScenarioStart - 14 * 60,
    ScenarioStart - 9 * 60, ScenarioStart - 4 * 60 }

\* cronMatch(job, nowEpoch) on a job that has never run and holds the
\* expression "*/n * * * *"
CronStepMatch(n, e) ==
  /\ ret' = [op |-> "stepMatch", step |-> n, now |-> e,
             result |-> cronMatch([ZeroJob EXCEPT !.active = TRUE,
                                                  !.cron = "*/" \o ToString(n) \o " * * * *"],
                                  e)]
  /\ UNCHANGED <<authVars, millis, eeprom, ticks, spent, devVars>>

InitMatch == InitCron

NextMatch ==
  \/ \E f \in MatchFields, v \in MatchValues : CronFieldMatch(f, v)
  \/ \E c \in MatchExprs, e \in MatchEpochs : CronMatch(c, e)
  \/ \E n \in StepValues, e \in StepEpochs : CronStepMatch(n, e)

SpecMatch == InitMatch /\ [][NextMatch]_vars

(***************************************************************************)
(* Properties                                                              *)
(***************************************************************************)

\* C1 - nonce single-use: once authVerify has been called with an identity
\* and a nonce, every later authVerify call with the same identity and nonce
\* returns false, unless a new challenge issued that nonce to it again.
C1_NonceSingleUse ==
  (ret.op = "verify" /\ ret.replay) => ~ret.ok

\* a replayed request carrying the right signature has been refused
C1_Witness ==
  ret.op = "verify" /\ ret.replay /\ ret.wellFormed /\ ret.macOk /\ ret.fits /\ ~ret.ok

\* C2 (as stated) - nonce expiry: at issuedAtMs + timeout + 1 authVerify
\* returns false whatever the signature, and at issuedAtMs + timeout - 1 with
\* matching identity, matching nonce and a correct signature it returns true.
C2_NonceExpiryAsStated ==
  ret.op = "verify" =>
    /\ (ret.age = "plus1" => ~ret.ok)
    /\ (ret.age = "minus1" /\ ret.wellFormed /\ ret.macOk => ret.ok)

\* C2 (amended) - nonce expiry: at issuedAtMs + timeout + 1 authVerify returns
\* false whatever the signature, and at issuedAtMs + timeout - 1 with matching
\* identity, matching nonce, a correct signature and a signed text (decimal
\* nonce, uri, payload) that fits the 1024-byte buffer with its terminator it
\* returns true.
C2_NonceExpiry ==
  ret.op = "verify" =>
    /\ (ret.age = "plus1" => ~ret.ok)
    /\ (ret.age = "minus1" /\ ret.wellFormed /\ ret.macOk /\ ret.fits => ret.ok)

\* a correctly signed request has been refused one millisecond after the timeout
C2_Witness ==
  ret.op = "verify" /\ ret.age = "plus1" /\ ret.wellFormed /\ ret.macOk /\ ret.fits /\ ~ret.ok

\* C4 - signature byte-exactness: authVerify returns true only if the
\* signature is 64 hex characters that decode to
\* HMAC-SHA256(key, decimal nonce ++ uri ++ payload), with no separator.
C4_SignatureExact ==
  (ret.op = "verify" /\ ret.ok) => (ret.wellFormed /\ ret.macOk)

\* a request has been accepted on an unexpired slot
C4_Witness ==
  ret.op = "verify" /\ ret.ok /\ ret.matched /\ ret.age \in {"early", "minus1"}

\* C9 - eviction: a challenge for an identity without a slot, issued while
\* all 8 slots are active, reuses exactly one slot, whose timestamp was the
\* smallest of the pool; the other 7 slots keep their challenge, and
\* authVerify for the evicted identity then fails.
C9_EvictionStep ==
  (ret'.op = "challenge" /\ ret'.full /\ ~ret'.known) =>
    \E v \in SlotIdx :
      /\ \A j \in SlotIdx : authSlots[v].timestamp <= authSlots[j].timestamp
      /\ authSlots'[v].active /\ authSlots'[v].ip = ret'.ip
      /\ \A j \in SlotIdx \ {v} : authSlots'[j] = authSlots[j] /\ authSlots[j].active
      /\ findSlotByIp(authSlots', authSlots[v].ip) < 0
      /\ ~authVerify(authSlots', authKey', millis', authSlots[v].ip, authSlots[v].nonce,
                     "/api/state", "",
                     GoodSig(authKey', authSlots[v].nonce, "/api/state", "")).ok

C9_Eviction == [][C9_EvictionStep]_vars

\* nine distinct identities have been challenged with no verification in between
C9_Witness ==
  /\ ret.op = "challenge" /\ ret.full /\ ~ret.known
  /\ ret.ip = MAX_AUTH_SLOTS + 1
  /\ spent = {}

\* C10 - slot pool: no two active slots hold the same identity, at most 8
\* slots are active, and a challenge request always ends with an active slot
\* holding the requester's identity and the nonce returned.
C10_SlotPool ==
  /\ \A i, j \in SlotIdx :
       (i # j /\ authSlots[i].active /\ authSlots[j].active)
         => authSlots[i].ip # authSlots[j].ip
  /\ Cardinality({ i \in DOMAIN authSlots : authSlots[i].active }) <= MAX_AUTH_SLOTS
  /\ ret.op = "challenge" =>
       \E i \in SlotIdx : /\ authSlots[i].active
                          /\ authSlots[i].ip = ret.ip
                          /\ authSlots[i].nonce = ret.nonce

\* a challenge has been served from a full pool to an identity that already had a slot
C10_Witness ==
  /\ ret.op = "challenge" /\ ret.full /\ ret.known
  /\ Cardinality({ i \in SlotIdx : authSlots[i].active }) = MAX_AUTH_SLOTS

\* C3 - at-most-once firing: in a scheduler pass every job whose action is
\* run has not run before in the same minute (however many passes fall in
\* the tolerance window), and its lastExecEpoch is written in that pass.
C3_AtMostOnce ==
  ret.op = "cron" => (ret.again = {} /\ ret.stamped = ret.fired)

\* C5 - body covered by the signature: with authentication enabled, a
\* protected POST/PATCH request gets past checkAuth only if its X-Auth
\* signature was computed over decimal nonce ++ request path ++ the literal
\* request body.
C5_BodySigned ==
  (ret.op \in {"setup", "config", "pinSet", "cronSet", "reboot"}
     /\ ret.authOn /\ ret.status # 401)
    => ret.covers

\* C6 - scenario B: once POST /api/setup with auth=true, sent while
\* authentication was disabled, has returned key K, a GET /api/state that
\* carries the nonce of the client's current challenge and the signature made
\* with K over nonce ++ "/api/state" is authorized, with no restart in between.
C6_ScenarioB ==
  (ret.op = "state" /\ ret.authOn /\ ret.honest) => ret.status = 200

ProtectedOps ==
  {"state", "pin", "config", "pinSet", "reboot", "cronSet", "cronGet",
   "cronDelete", "cronClear", "setup"}

\* C7 - no mutation on rejection: while authentication is enabled, a request
\* to a protected handler that lacks X-Nonce or X-Auth or fails authVerify is
\* answered 401 and leaves the GPIO table, the cron table, the auth flag, the
\* stored key and the debug flag unchanged, and the device does not restart.
C7_RejectStep ==
  (authEnabled /\ ret'.op \in ProtectedOps /\ (~ret'.hdrs \/ ~ret'.verified)) =>
    /\ ret'.status = 401
    /\ ~ret'.restart
    /\ UNCHANGED <<gpioState, gpioFile, cronJobsState, cronFile, authEnabled,
                   authKey, eeprom, debugActive>>

C7_NoMutationOnReject == [][C7_RejectStep]_vars

\* a clear request carrying both headers failed verification while a job was stored
C7_Witness ==
  /\ ret.op = "cronClear" /\ ret.authOn /\ ret.hdrs /\ ~ret.verified
  /\ ret.status = 401
  /\ \E i \in JobIdx : cronJobsState[i].active

\* C8 - setup access rule: while authentication is enabled, the flag goes to
\* disabled, or the stored key changes, only in a setup request that passed
\* authVerify; while authentication is disabled a setup request is never
\* answered unauthorized.
C8_SetupStep ==
  /\ (authEnabled /\ (~authEnabled' \/ eeprom'.authKey # eeprom.authKey))
       => (ret'.op = "setup" /\ ret'.hdrs /\ ret'.verified)
  /\ (~authEnabled /\ ret'.op = "setup") => ret'.status # 401

C8_SetupAccess == [][C8_SetupStep]_vars

\* an authenticated setup request has switched authentication off
C8_Witness ==
  /\ ret.op = "setup" /\ ret.authOn /\ ret.verified /\ ret.status = 200
  /\ ~authEnabled

\* C11 - every verification failure clears the slot: whenever authVerify
\* returns false for an identity that had an active slot (nonce mismatch,
\* expired nonce, malformed signature or signature mismatch), that identity
\* has no active slot when the call returns.
C11_FailureClears ==
  (ret.op = "verify" /\ ~ret.ok /\ ret.hadSlot) => findSlotByIp(authSlots, ret.ip) < 0

\* C16 - signable-size bound: every authVerify call whose decimal nonce ++
\* uri ++ payload is longer than the concatenation buffer can hold (1024
\* bytes, terminator included) returns false.
C16_OversizeRejected ==
  (ret.op = "verify" /\ ~ret.fits) => ~ret.ok

\* C12 - durable firing: when a scheduler pass has run a job's action, the
\* job table in persistent storage holds that job with lastExecEpoch set to
\* the time of the pass, so a reload after a power loss sees the firing.
C12_DurableFiring ==
  ret.op = "cron" =>
    \A i \in ret.fired : cronFile.present /\ cronFile.data[i].lastExecEpoch = epoch

ScenarioJob(j) ==
  j.active /\ j.cron = "30 18 * * *" /\ j.action = "SetPinState" /\ j.pin = 4 /\ j.value = 1

At1830(e, sec) ==
  localtime(e).tm_hour = 18 /\ localtime(e).tm_min = 30 /\ localtime(e).tm_sec = sec

\* C13 - scenario C: with the job {cron "30 18 * * *", set, GPIO4, 1} in slot
\* 0 and GPIO4 an output, a scheduler pass at 18:30:01 local time in which the
\* job has not yet run that minute leaves GPIO4's state at 1 and the job's
\* lastExecEpoch at the time of the pass; a pass one second later, the job
\* having run in that minute, does not run its action again.
C13_ScenarioStep ==
  (ret'.op = "cron" /\ ScenarioJob(cronJobsState[0]) /\ gpioState[4].mode = "Output") =>
    /\ (At1830(epoch, 1) /\ cronJobsState[0].lastExecEpoch < epoch - 1)
         => (gpioState'[4].state = 1 /\ cronJobsState'[0].lastExecEpoch = epoch)
    /\ (At1830(epoch, 2) /\ firedMin[0] = epoch \div 60)
         => 0 \notin ret'.fired

C13_ScenarioC == [][C13_ScenarioStep]_vars

\* the value v is matched by field f: f is "*", or an element of f is the
\* number v, or an element of f is a range a-b with a <= v <= b
FieldCovers(f, v) ==
  \/ f.star
  \/ \E k \in 1 .. Len(f.elems) :
       IF Len(f.elems[k]) = 1 THEN f.elems[k][1] = v
       ELSE f.elems[k][1] <= v /\ v <= f.elems[k][2]

\* C14 - cron field matching: for a field built from "*", numbers, ranges
\* a-b and comma lists of them, cronFieldMatch(expr, v) is true exactly when
\* the field is "*", or an element equals v, or a range a-b has a <= v <= b;
\* and cronMatch is true for a 5-field expression only if each field matches
\* its component of the local time.
C14_FieldMatch ==
  /\ ret.op = "fieldMatch" => (ret.result <=> FieldCovers(ret.field, ret.value))
  /\ (ret.op = "cronMatch" /\ ret.result /\ Len(ret.fields) = 5) =>
       /\ FieldCovers(ret.fields[1], localtime(ret.now).tm_min)
       /\ FieldCovers(ret.fields[2], localtime(ret.now).tm_hour)
       /\ FieldCovers(ret.fields[3], localtime(ret.now).tm_mday)
       /\ FieldCovers(ret.fields[4], localtime(ret.now).tm_mon + 1)
       /\ FieldCovers(ret.fields[5], localtime(ret.now).tm_wday)

\* C15 - exactly five fields: cronMatch is false for every expression whose
\* number of space-separated fields is not 5, at every time.
C15_FiveFields ==
  (ret.op = "cronMatch" /\ Len(ret.fields) # 5) => ~ret.result

\* C17 - key generation only on the disabled-to-enabled transition: a setup
\* request with auth=true that succeeds generates, stores and returns a key
\* when authentication was disabled before it; when authentication was
\* already enabled it leaves the stored key unchanged and returns no authKey.
C17_KeyStep ==
  (ret'.op = "setup" /\ ret'.status = 200 /\ authEnabled') =>
    IF authEnabled
      THEN eeprom'.authKey = eeprom.authKey /\ ret'.msg # "authKey"
      ELSE ret'.msg = "authKey" /\ eeprom'.authKey = issuedKey'

C17_KeyOnTransition == [][C17_KeyStep]_vars

\* C18 - disabling erases the key: after a setup request with auth=false has
\* succeeded, authentication is disabled and the key stored in EEPROM is
\* cleared.
C18_DisableErases ==
  (ret.op = "setup" /\ ret.status = 200 /\ ~authEnabled) =>
    (~eeprom.authFlag /\ eeprom.authKey = ZeroKey)

\* C19 - scenario A: while authentication is disabled, a request to a
\* protected handler that carries no X-Nonce and no X-Auth header is never
\* answered unauthorized, and the slot pool is left as it was (unless the
\* request is the reboot, which restarts the device).
C19_OpenStep ==
  (~authEnabled /\ ret'.op \in ProtectedOps /\ ~ret'.hdrs) =>
    /\ ret'.status # 401
    /\ ret'.restart \/ authSlots' = authSlots

C19_OpenWhenDisabled == [][C19_OpenStep]_vars

\* a configuration request without headers has been served while authentication
\* was disabled and another client still held a challenge
C19_Witness ==
  /\ ret.op = "config" /\ ~ret.authOn /\ ~ret.hdrs /\ ret.status = 200
  /\ \E i \in SlotIdx : authSlots[i].active

C20_ChallengeStep ==
  ret'.op = "challenge" =>
    IF authEnabled
      THEN /\ ret'.status = 200
           /\ \E i \in SlotIdx :
                authSlots'[i] = [ip |-> ret'.ip, nonce |-> ret'.nonce,
                                 timestamp |-> millis, active |-> TRUE]
      ELSE /\ ret'.status = 400 /\ ret'.msg = "authentication disabled"
           /\ authSlots' = authSlots

C21_BootStep ==
  ret'.op = "reboot" /\ ret'.restart =>
    /\ \A i \in SlotIdx : ~authSlots'[i].active
    /\ \A i \in SlotIdx : authSlots[i].active =>
         ~authVerify(authSlots', authKey', millis', authSlots[i].ip, authSlots[i].nonce,
                     "/api/state", "",
                     GoodSig(authKey', authSlots[i].nonce, "/api/state", "")).ok
    /\ authEnabled' => (eeprom'.authFlag /\ authKey' = eeprom'.authKey)
    /\ ~eeprom'.authFlag => ~authEnabled'

C21_Boot == [][C21_BootStep]_vars

\* the device has restarted with authentication enabled while a client other
\* than the requester held a challenge
C21_Witness ==
  /\ ret.op = "reboot" /\ ret.restart /\ ret.held
  /\ authEnabled /\ authKey = eeprom.authKey

\* C22 - lastExecEpoch monotonicity: a scheduler pass never lowers the
\* lastExecEpoch of a job slot, whatever the wall clock returns (no add or
\* overwrite of a slot happens inside a pass).
C22_MonotoneStep ==
  (ret'.op = "cron" /\ ~ret'.restart) =>
    \A i \in JobIdx : cronJobsState'[i].lastExecEpoch >= cronJobsState[i].lastExecEpoch

C22_Monotone == [][C22_MonotoneStep]_vars

\* C23 - failed pin action is still stamped: when deviceSet refuses the pin
\* of a matching job, the scheduler pass completes, the job's lastExecEpoch
\* is the time of the pass, and the job had not already run in that minute
\* (it is not retried in the same window).
C23_RefusedStep ==
  ret'.op = "cron" =>
    \A i \in ret'.refused :
      /\ ~ret'.restart
      /\ cronJobsState'[i].lastExecEpoch = epoch
      /\ i \notin ret'.again

C23_RefusedStamped == [][C23_RefusedStep]_vars

\* C24 - setCronJob range check: setCronJob(index, job) with index >= 32
\* returns false and leaves every slot in memory and the stored table
\* unchanged; with index < 32 it overwrites exactly that slot, writes the
\* whole table to storage, and returns false if that write fails.
C24_SetStep ==
  ret'.op = "setCronJob" =>
    IF ret'.index >= MAX_CRON_JOBS
      THEN ~ret'.ok /\ cronJobsState' = cronJobsState /\ cronFile' = cronFile
      ELSE /\ cronJobsState'[ret'.index] = TableJob
           /\ \A j \in JobIdx \ {ret'.index} : cronJobsState'[j] = cronJobsState[j]
           /\ ret'.wr = "ok" =>
                (ret'.ok /\ cronFile' = [present |-> TRUE, data |-> cronJobsState'])
           /\ ret'.wr # "ok" => ~ret'.ok

C24_SetRange == [][C24_SetStep]_vars

\* setCronJob has refused index 32 while a stored table existed
C24_Witness ==
  /\ ret.op = "setCronJob" /\ ret.index = MAX_CRON_JOBS /\ ~ret.ok
  /\ cronFile.present

\* C25 - out-of-range slot index at the API: a cron get or delete request
\* whose id is an integer outside 0..31 (256 and above, negative values
\* included) is answered with an error and leaves every job slot unchanged.
C25_IdStep ==
  (ret'.op \in {"cronGet", "cronDelete"} /\ (atol(ret'.id) < 0 \/ atol(ret'.id) > 31)) =>
    /\ ret'.status = 400
    /\ cronJobsState' = cronJobsState

C25_IdRange == [][C25_IdStep]_vars

\* C26 - cron table overflow: when all 32 job slots are active a cron add
\* request is answered with the error "no free job slot" and the table in
\* memory and in storage is left as it was; and no cron add ever changes a
\* slot that was active.
C26_OverflowStep ==
  ret'.op = "cronSet" =>
    /\ (\A i \in JobIdx : cronJobsState[i].active) =>
         /\ ret'.status = 400 /\ ret'.msg = "no free job slot"
         /\ cronJobsState' = cronJobsState /\ cronFile' = cronFile
    /\ \A i \in JobIdx : cronJobsState[i].active => cronJobsState'[i] = cronJobsState[i]

C26_Overflow == [][C26_OverflowStep]_vars

\* an add request has been refused with all 32 slots active
C26_Witness ==
  /\ ret.op = "cronSet" /\ ret.msg = "no free job slot"
  /\ ActiveJobs = MAX_CRON_JOBS

\* C27 - malformed cron expressions are rejected at the boundary: a cron add
\* request changes the job table only by storing a job whose expression has
\* exactly 5 space-separated fields; a request whose expression has another
\* number of fields, or is cut by the expression buffer, is answered 400 and
\* stores nothing.
C27_MalformedStep ==
  ret'.op = "cronSet" =>
    \A i \in JobIdx :
      cronJobsState'[i] # cronJobsState[i] =>
        Len(strtokAll(cronJobsState'[i].cron, " ")) = 5

C27_MalformedRejected == [][C27_MalformedStep]_vars

\* C28 - step syntax: a job with expression "*/n * * * *" that has not run
\* is due at second 0 of exactly the minutes whose value is a multiple of n
\* ("*/10 * * * *" fires every 10 minutes).
C28_StepSyntax ==
  ret.op = "stepMatch" =>
    (ret.result <=> localtime(ret.now).tm_min % ret.step = 0)

\* C29 - cron initialization without a valid table: after a boot on storage
\* where the job file is absent or does not hold the 32 records, every job
\* slot is inactive and cronSchedulerInit has returned false.
C29_InitStep ==
  (ret'.op = "boot" /\ ~ret'.whole) =>
    /\ ~ret'.cronOk
    /\ \A i \in JobIdx : ~cronJobsState'[i].active

C29_InvalidTable == [][C29_InitStep]_vars

\* C30 - delete and clear only deactivate: a successful cron delete of slot
\* i changes slot i in its active flag only, which becomes false, and no
\* other slot; cron clear does the same to all 32 slots; and a scheduler pass
\* never runs the action of a slot that is not active.
C30_DeactivateStep ==
  /\ (ret'.op = "cronDelete" /\ ret'.status = 200) =>
       cronJobsState' = [cronJobsState EXCEPT ![toUint8(atol(ret'.id))].active = FALSE]
  /\ (ret'.op = "cronDelete" /\ ret'.status # 200) => cronJobsState' = cronJobsState
  /\ ret'.op = "cronClear" =>
       cronJobsState' = [i \in JobIdx |-> [cronJobsState[i] EXCEPT !.active = FALSE]]
  /\ ret'.op = "cron" => \A i \in ret'.fired : cronJobsState[i].active

MinuteMatches(job, e) ==
  cronMatch([job EXCEPT !.lastExecEpoch = toUint32(e - 3600)], e - localtime(e).tm_sec)

\* C31 - no lost job inside the window: a scheduler pass at a second s <= 2
\* of minute M that runs to its end, and any pass at second 2 (after which no
\* evaluation falls inside the window of M), leaves every active job whose
\* expression matches M with its action run in that pass or earlier in M; in
\* a pass at a second 3..59 no action is run.
C31_WindowStep ==
  ret'.op = "cron" =>
    \A i \in JobIdx :
      (cronJobsState[i].active /\ MinuteMatches(cronJobsState[i], epoch)) =>
        /\ (localtime(epoch).tm_sec < CRON_EXEC_WINDOW_SEC /\ ~ret'.restart)
             => (i \in ret'.fired \/ firedMin[i] = epoch \div 60)
        /\ localtime(epoch).tm_sec = CRON_EXEC_WINDOW_SEC
             => (i \in ret'.fired \/ firedMin[i] = epoch \div 60)
        /\ localtime(epoch).tm_sec > CRON_EXEC_WINDOW_SEC => i \notin ret'.fired

C31_NoLostJob == [][C31_WindowStep]_vars

\* C32 - nonces are bound to the client identity: authVerify returns true
\* only if the slot of the presenting identity holds the nonce presented, so
\* a nonce held only by identity A is refused when identity B presents it,
\* whatever the signature; and an authVerify call from B leaves the slot of
\* every other identity, its nonce and its timestamp as they were.
C32_BoundStep ==
  ret'.op = "verify" =>
    /\ ret'.ok => \E i \in SlotIdx : /\ authSlots[i].active
                                     /\ authSlots[i].ip = ret'.ip
                                     /\ authSlots[i].nonce = ret'.nonce
    /\ \A i \in SlotIdx :
         (authSlots[i].active /\ authSlots[i].ip # ret'.ip) => authSlots'[i] = authSlots[i]

C32_NonceBound == [][C32_BoundStep]_vars

\* an identity has presented, with the right signature, a nonce that only
\* another identity holds, and has been refused
C32_Witness ==
  /\ ret.op = "verify" /\ ~ret.ok /\ ret.wellFormed /\ ret.macOk /\ ret.fits
  /\ ~ret.matched
  /\ \E i \in SlotIdx : /\ authSlots[i].active
                        /\ authSlots[i].ip # ret.ip
                        /\ authSlots[i].nonce = ret.nonce

\* the old nonce of identity ip, presented with the right signature in the
\* state a challenge step leads to, is accepted
OldNonceAccepted(ip, old) ==
  authVerify(authSlots', authKey', millis', ip, old, "/api/state", "",
             GoodSig(authKey', old, "/api/state", "")).ok

\* C33 (as stated) - re-challenge supersedes: a challenge for an identity that
\* has an active slot reuses that slot and changes no other, puts a different
\* nonce and the current time in it, and the earlier nonce is refused from
\* then on.
C33_RechallengeStep ==
  (ret'.op = "challenge" /\ ret'.known) =>
    \E i \in SlotIdx :
      /\ authSlots[i].active /\ authSlots[i].ip = ret'.ip
      /\ authSlots'[i] = [ip |-> ret'.ip, nonce |-> ret'.nonce,
                          timestamp |-> millis, active |-> TRUE]
      /\ \A j \in SlotIdx \ {i} : authSlots'[j] = authSlots[j]
      /\ authSlots'[i].nonce # authSlots[i].nonce
      /\ ~OldNonceAccepted(ret'.ip, authSlots[i].nonce)

C33_RechallengeAsStated == [][C33_RechallengeStep]_vars

\* C33 (amended) - re-challenge supersedes: a challenge for an identity that
\* has an active slot reuses that slot and changes no other, puts the nonce
\* returned and the current time in it, and the earlier nonce is refused from
\* then on unless the random source has returned the same value again.
C33_SupersedeStep ==
  (ret'.op = "challenge" /\ ret'.known) =>
    \E i \in SlotIdx :
      /\ authSlots[i].active /\ authSlots[i].ip = ret'.ip
      /\ authSlots'[i] = [ip |-> ret'.ip, nonce |-> ret'.nonce,
                          timestamp |-> millis, active |-> TRUE]
      /\ \A j \in SlotIdx \ {i} : authSlots'[j] = authSlots[j]
      /\ ret'.nonce # authSlots[i].nonce => ~OldNonceAccepted(ret'.ip, authSlots[i].nonce)

C33_Supersede == [][C33_SupersedeStep]_vars

\* an identity holding a nonce has been challenged again, later, with another nonce
C33_Witness ==
  /\ ret.op = "challenge" /\ ret.known /\ ret.prev # ret.nonce
  /\ \E i \in SlotIdx : /\ authSlots[i].active /\ authSlots[i].ip = ret.ip
                        /\ authSlots[i].nonce = ret.nonce
                        /\ authSlots[i].timestamp = millis
  /\ ticks > 0

\* C34 - cron add placement: a cron add request answered 200 stores the job
\* in the lowest-indexed slot that was not active, with active = true and
\* lastExecEpoch = 0, returns that index as id and leaves every other slot as
\* it was; cronMatch accepts the stored job in the tolerance window of a
\* minute its expression matches, with no restart in between.
C34_PlacementStep ==
  (ret'.op = "cronSet" /\ ret'.status = 200) =>
       \E i \in JobIdx :
         /\ ~cronJobsState[i].active
         /\ \A j \in JobIdx : j < i => cronJobsState[j].active
         /\ ret'.slot = i
         /\ cronJobsState'[i].active /\ cronJobsState'[i].lastExecEpoch = 0
         /\ \A j \in JobIdx \ {i} : cronJobsState'[j] = cronJobsState[j]
         /\ (localtime(epoch).tm_sec <= CRON_EXEC_WINDOW_SEC
               /\ MinuteMatches(cronJobsState'[i], epoch))
              => cronMatch(cronJobsState'[i], epoch)

C34_Placement == [][C34_PlacementStep]_vars

\* a job added into the hole a delete left below an active job has been run
\* by the next scheduler pass
C34_Witness ==
  /\ ret.op = "cron" /\ 0 \in ret.fired /\ 1 \notin ret.fired
  /\ cronJobsState[0].active /\ cronJobsState[1].active
  /\ cronJobsState[1].lastExecEpoch # 0
  /\ cronJobsState[0].lastExecEpoch = epoch

\* C35 - the secret used for verification is the current one: whenever
\* authentication is enabled, the key authVerify computes the expected MAC
\* with is the key most recently generated and written to EEPROM, so that a
\* signature made with an earlier key or with the all-zero key is refused.
C35_CurrentKey ==
  authEnabled => authKey = eeprom.authKey

\* C36 - the concatenation stays inside its buffer: in every authVerify call
\* that gets past the length check (slot found, nonce matching and not
\* expired, 64-character signature, dataLen not above the limit) the decimal
\* nonce, the uri, the payload and the string terminator take at most the 1024
\* bytes of the data buffer.
C36_InBuffer ==
  (ret.op = "verify" /\ ret.matched /\ ret.age \in {"early", "minus1"}
     /\ ret.wellFormed /\ ret.sized)
    => ret.fits

\* C37 - every issued nonce is usable: with authentication enabled, a GET
\* /api/state request that carries in X-Nonce the decimal text of the nonce
\* the client's slot holds (not expired) and in X-Auth the signature made over
\* nonce ++ "/api/state" with the key the device verifies with is authorized,
\* whatever the value of the nonce.
C37_NonceUsable ==
  (ret.op = "state" /\ ret.authOn /\ ret.signed) => ret.status = 200

\* C38 - eviction and expiry across counter wrap-around: a challenge for an
\* identity without a slot, issued while all 8 slots are active, takes a slot
\* whose challenge was issued longest ago, the age of a slot being
\* millis() - timestamp in 32-bit unsigned arithmetic, also when the counter
\* has wrapped since some of the slots were issued; and authVerify accepts a
\* nonce only if that age is at most the timeout.
C38_WrapStep ==
  /\ (ret'.op = "challenge" /\ ret'.full /\ ~ret'.known) =>
       \E v \in SlotIdx :
         /\ authSlots'[v].ip = ret'.ip
         /\ \A j \in SlotIdx \ {v} : authSlots'[j] = authSlots[j]
         /\ \A j \in SlotIdx :
              elapsedMs(millis, authSlots[v].timestamp) >= elapsedMs(millis, authSlots[j].timestamp)
  /\ (ret'.op = "verify" /\ ret'.ok) =>
       \E i \in SlotIdx :
         /\ authSlots[i].active /\ authSlots[i].ip = ret'.ip
         /\ elapsedMs(millis, authSlots[i].timestamp) <= NONCE_TIMEOUT_MS

C38_Wraparound == [][C38_WrapStep]_vars

\* C39 - a Reboot job fires once per trigger: a scheduler pass restarts the
\* device for a Reboot job only if that job has not already restarted it in
\* the same minute, however short the boot that followed the first restart.
C39_RebootStep ==
  (ret'.op = "cron" /\ ret'.restart) =>
    \A i \in ret'.fired :
      cronJobsState[i].action = "Reboot" => firedMin[i] # epoch \div 60

C39_RebootOnce == [][C39_RebootStep]_vars

\* C40 - pin addressing invariant: in every state, the first boot without a
\* stored GPIO file included, the cached entry at index p of the GPIO table
\* has its pin field equal to p, so that a request or a cron action addressed
\* to pin p reads, drives and updates the entry of pin p only.
C40_PinAddressing ==
  \A p \in PinIdx : gpioState[p].pin = p

====
